---- MODULE Spec2Model ----
(***************************************************************************)
(* Model of the xkcd-alt command line tool (pdxka): the hand-written       *)
(* argument interpreter parse_options, the option extraction of            *)
(* extract_args / extract_previous and the orchestration of program_main.  *)
(* Two further specifications cover the transport layer: SpecHandles, the  *)
(* threads that construct, move and destroy curl_handle objects over the   *)
(* guarded static of init_curl, and SpecGet, one call of get_xkcd_rss      *)
(* through curl_get or the goto-based get_rss.                             *)
(*                                                                         *)
(* argv[0] is the program name, so the C index i of argv[i] (i >= 1) is    *)
(* the 1-based index of the sequence argv kept here, and argc is           *)
(* Len(argv) + 1.                                                          *)
(***************************************************************************)
EXTENDS Integers, Sequences, FiniteSets, TLC

VARIABLES
  argv,        \* the argument tokens after the program name
  pc,          \* position of the run in program_main
  i,           \* loop index of parse_options
  opt_map,     \* cliopt_map: option name -> vector of argument values
  parse_ok,    \* return value of parse_options
  opts,        \* cliopts built by extract_args
  res,         \* curl_result returned by rss_factory
  rss_items,   \* rss_item_vector built by to_item_vector
  rss_calls,   \* number of invocations of rss_factory
  out,         \* what was written to std::cout
  err,         \* what was written to std::cerr
  exit_code,   \* status of the process, NoExit while running
  loader,          \* the static curl_loader of init_curl: its guard
  global_inits,    \* calls of curl_global_init
  global_ok,       \* calls of curl_global_init that returned CURLE_OK
  global_cleanups, \* calls of curl_global_cleanup
  acquired,        \* number of session handles curl_easy_init returned
  released,        \* session handle -> calls of curl_easy_cleanup on it
  handle_,     \* curl_handle object -> the session handle it holds
  life,        \* curl_handle object -> "unborn", "alive" or "dead"
  last_op,     \* the last special member function run on a curl_handle
  tpc,         \* thread -> its position in the curl_handle constructor
  gfn,         \* the retrieval function called: "curl_get" or "get_rss"
  gpc,         \* position of the call in the retrieval function
  gk,          \* index of the next caller option to set
  goptions,    \* the curl_option values bound by get_xkcd_rss
  gstatus,     \* local status of the retrieval function
  gerrbuf,     \* local errbuf: the libcurl error buffer
  greason,     \* local reason of get_rss
  gstream,     \* local stream: number of chunks the write callback appended
  gset,        \* option name -> value set on the session handle
  ghandle,     \* local raw handle of get_rss
  gret,        \* the curl_result returned, NoReturn before the return
  gescaped,    \* status of the curl_error that left the function
  gacked,      \* number of chunks for which the write callback returned n_items
  gbad,        \* badbit of the local stream
  scall,       \* the last call of curl_handle::set: option, value, result
  thrown,      \* the curl_error thrown by that call, NoError if none
  simpl,       \* where std::strerror keeps the message it returns
  mut,         \* the static mutex of pdxka::strerror: its holder, 0 if free
  spc,         \* thread -> its position in a call of pdxka::strerror
  scode,       \* thread -> the error code it passed
  sbuf,        \* the static buffer of std::strerror, as two halves
  sptr,        \* thread -> what the returned pointer points to
  scopy        \* thread -> the text it copied, as two halves

main_vars == <<argv, pc, i, opt_map, parse_ok, opts, res, rss_items,
               rss_calls, out, err, exit_code>>

lib_vars == <<loader, global_inits, global_ok, global_cleanups, acquired,
              released>>

obj_vars == <<handle_, life, last_op>>

get_vars == <<gfn, gpc, gk, goptions, gstatus, gerrbuf, greason, gstream,
              gset, ghandle, gret, gescaped>>

writer_vars == <<gacked, gbad>>

set_vars == <<scall, thrown>>

strerror_vars == <<simpl, mut, spc, scode, sbuf, sptr, scopy>>

ext_vars == <<writer_vars, set_vars, strerror_vars>>

curl_vars == <<lib_vars, obj_vars, tpc, get_vars, ext_vars>>

vars == <<main_vars, curl_vars>>

-----------------------------------------------------------------------------
(* Bounds of the model *)

\* longest argument list over the core tokens
MaxArgs == 3
\* longest argument list over all tokens (core and value tokens)
MaxValArgs == 2
\* largest number of children of the channel node of a feed
MaxChildren == 3
\* number of threads that construct a curl_handle concurrently
MaxThreads == 2
\* number of curl_handle objects that are created by move construction
MaxMoveTargets == 1
\* largest number of chunks libcurl hands to the write callback
MaxChunks == 2

-----------------------------------------------------------------------------
(* Program constants *)

EXIT_SUCCESS == 0
EXIT_FAILURE == 1
\* std::numeric_limits<int>::max() and min() of the int that std::stoi returns
IntMax == 2147483647
IntMin == (-2147483647) - 1
CURLE_OK == 0
\* some non-zero CURLcode, e.g. CURLE_COULDNT_RESOLVE_HOST
CURLE_FAILED == 6
NoExit == -1
\* CURLcode values returned by the libcurl calls of the model
CURLE_FAILED_INIT == 2
CURLE_WRITE_ERROR == 23
CURLE_OUT_OF_MEMORY == 27
\* nullptr as the value of a CURL*
NULL == 0

-----------------------------------------------------------------------------
(* Strings *)

Min(a, b) == IF a <= b THEN a ELSE b

\* std::string_view::substr(pos, n): at most n characters from offset pos
substr(s, pos, n) == SubSeq(s, pos + 1, Min(pos + n, Len(s)))

\* std::string_view::substr(pos): the rest of the string from offset pos
substr_from(s, pos) == SubSeq(s, pos + 1, Len(s))

\* the character of s at C offset pos
CharAt(s, pos) == SubSeq(s, pos + 1, pos + 1)

Digits == {"0", "1", "2", "3", "4", "5", "6", "7", "8", "9"}

DigitVal(c) ==
  CASE c = "0" -> 0 [] c = "1" -> 1 [] c = "2" -> 2 [] c = "3" -> 3
    [] c = "4" -> 4 [] c = "5" -> 5 [] c = "6" -> 6 [] c = "7" -> 7
    [] c = "8" -> 8 [] c = "9" -> 9

\* the characters std::isspace accepts in the C locale (the vertical tab,
\* which has no escape here, is left out)
Whitespace == {" ", "\t", "\n", "\r", "\f"}

-----------------------------------------------------------------------------
(* std::stoi(str) with base 10, as strtol computes it: leading whitespace  *)
(* is skipped, one optional sign is read, then the longest run of decimal  *)
(* digits; whatever follows the digits is ignored.  No digit at all is     *)
(* std::invalid_argument, a value outside the range of int is              *)
(* std::out_of_range.                                                      *)

RECURSIVE SkipSpace(_, _)
\* offset of the first character of s at or after pos that is not whitespace
SkipSpace(s, pos) ==
  IF pos < Len(s) /\ CharAt(s, pos) \in Whitespace
    THEN SkipSpace(s, pos + 1)
    ELSE pos

\* largest magnitude that can still take the digit d without leaving int
DigitRoom(neg, d) ==
  IF neg
    THEN (IF d = 0 THEN IntMax \div 10 ELSE (IntMax - (d - 1)) \div 10)
    ELSE (IntMax - d) \div 10

RECURSIVE ScanDigits(_, _, _, _, _, _)
\* reads the digits of s from offset pos on; acc is the signed value read so
\* far, any says a digit was read, over that the value left the range of int
ScanDigits(s, pos, neg, acc, any, over) ==
  IF pos < Len(s) /\ CharAt(s, pos) \in Digits
    THEN LET d == DigitVal(CharAt(s, pos))
             fits == IF neg THEN acc >= -DigitRoom(neg, d)
                            ELSE acc <= DigitRoom(neg, d)
         IN  IF over \/ ~fits
               THEN ScanDigits(s, pos + 1, neg, acc, TRUE, TRUE)
               ELSE ScanDigits(s, pos + 1, neg,
                               IF neg THEN acc * 10 - d ELSE acc * 10 + d,
                               TRUE, FALSE)
    ELSE [any |-> any, over |-> over, value |-> acc]

stoi(str) ==
  LET p0 == SkipSpace(str, 0)
      signed == p0 < Len(str) /\ CharAt(str, p0) \in {"+", "-"}
      neg == signed /\ CharAt(str, p0) = "-"
      p1 == IF signed THEN p0 + 1 ELSE p0
      r == ScanDigits(str, p1, neg, 0, FALSE, FALSE)
  IN  IF ~r.any THEN [status |-> "invalid_argument", value |-> 0]
      ELSE IF r.over THEN [status |-> "out_of_range", value |-> 0]
      ELSE [status |-> "ok", value |-> r.value]

-----------------------------------------------------------------------------
(* cliopt_map: std::unordered_map<std::string, std::vector<std::string>>,  *)
(* a function from the option names present to their vectors of values.    *)

EmptyMap == [k \in {} |-> <<>>]

\* opt_map.find(k) != opt_map.end()
Has(m, k) == k \in DOMAIN m

\* opt_map.try_emplace(k, v): inserts only when k is absent
try_emplace(m, k, v) ==
  IF k \in DOMAIN m THEN m
  ELSE [x \in DOMAIN m \cup {k} |-> IF x = k THEN v ELSE m[x]]

\* opt_map.insert_or_assign(k, v): inserts or overwrites
insert_or_assign(m, k, v) ==
  [x \in DOMAIN m \cup {k} |-> IF x = k THEN v ELSE m[x]]

-----------------------------------------------------------------------------
(* Inputs *)

\* tokens every argument list of up to MaxArgs tokens is drawn from
CoreTokens ==
  {"-h", "--help", "-V", "-k", "-o", "-b", "--back", "-b2", "--back=3",
   "2", "-1900", "--bogus"}

\* further tokens, used in the argument lists of up to MaxValArgs tokens
ValueTokens ==
  {"--version", "--insecure", "-v", "--verbose", "--one-line",
   "0", "1", "8888", "x", "", "-x",
   "-b0", "-b3", "-b1000", "-b007", "-b2147483647", "-b2147483648",
   "-b-9888", "-b-0", "-b-1", "-b-2147483649", "-b=2", "-bx", "-b2x",
   "--back=0", "--back=2", "--back=", "--back=-5", "--back=2147483648"}

AllTokens == CoreTokens \cup ValueTokens

\* the sequences of at most n elements of S
SeqsUpTo(S, n) == UNION {[1..m -> S] : m \in 0..n}

ArgLists == SeqsUpTo(CoreTokens, MaxArgs) \cup SeqsUpTo(AllTokens, MaxValArgs)

\* A child of the channel node of the feed document: its element name, its
\* position in the document (which stands for its guid and image title) and
\* whether all seven fields of an item can be read from it.
Child(name, pos, complete) ==
  [name |-> name, guid |-> pos, complete |-> complete]

ChildKinds == {"item", "other", "broken_item"}

\* the channel children spelled by a sequence of child kinds
ChildrenOf(kinds) ==
  [j \in 1..Len(kinds) |->
     Child(IF kinds[j] = "other" THEN "other" ELSE "item", j,
           kinds[j] # "broken_item")]

\* payloads: a document that is not XML, a document without rss.channel,
\* and the documents with up to MaxChildren channel children
Payloads ==
  {[xml |-> FALSE, channel |-> FALSE, children |-> <<>>],
   [xml |-> TRUE, channel |-> FALSE, children |-> <<>>]}
  \cup {[xml |-> TRUE, channel |-> TRUE, children |-> ChildrenOf(ks)] :
          ks \in SeqsUpTo(ChildKinds, MaxChildren)}

EmptyPayload == [xml |-> FALSE, channel |-> FALSE, children |-> <<>>]

\* the curl_result values rss_factory can return
RssResults ==
  {[status |-> CURLE_OK, reason |-> "", payload |-> p] : p \in Payloads}
  \cup {[status |-> CURLE_FAILED, reason |-> "curl failure",
         payload |-> EmptyPayload]}

NoResult == [status |-> CURLE_OK, reason |-> "", payload |-> EmptyPayload]

\* one thing written to a stream: what it is, the text and the number it shows
Line(kind, text, num) == [kind |-> kind, text |-> text, num |-> num]

\* cliopts before extract_args has populated it
NoOpts == [one_line |-> FALSE, previous |-> 0, verbose |-> FALSE,
           insecure |-> FALSE]

argc == Len(argv) + 1

-----------------------------------------------------------------------------
(* parse_options *)

\* allows other options following -b, --back without arguments:
\* std::strlen(argv[i]) && argv[i][0] == '-'
LooksLikeOption(tok) == Len(tok) > 0 /\ CharAt(tok, 0) = "-"

\* variant of Branch: a hyphen fused to -b is not taken as a value
Branch_RejectFusedHyphen(arg) ==
  IF arg = "-h" \/ arg = "--help" THEN "help"
  ELSE IF arg = "-V" \/ arg = "--version" THEN "version"
  ELSE IF arg = "-k" \/ arg = "--insecure" THEN "insecure"
  ELSE IF arg = "-v" \/ arg = "--verbose" THEN "verbose"
  ELSE IF arg = "-o" \/ arg = "--one-line" THEN "one_line"
  ELSE IF arg = "-b" \/ arg = "--back" THEN "back"
  ELSE IF substr(arg, 0, 2) = "-b" /\ substr(arg, 2, 1) # "-" THEN "back_short"
  ELSE IF substr(arg, 0, 7) = "--back=" THEN "back_long"
  ELSE "unknown"

\* the branch of the if-else chain of the loop body that takes arg
Branch(arg) ==
  IF arg = "-h" \/ arg = "--help" THEN "help"
  ELSE IF arg = "-V" \/ arg = "--version" THEN "version"
  ELSE IF arg = "-k" \/ arg = "--insecure" THEN "insecure"
  ELSE IF arg = "-v" \/ arg = "--verbose" THEN "verbose"
  ELSE IF arg = "-o" \/ arg = "--one-line" THEN "one_line"
  ELSE IF arg = "-b" \/ arg = "--back" THEN "back"
  ELSE IF substr(arg, 0, 2) = "-b" THEN "back_short"
  ELSE IF substr(arg, 0, 7) = "--back=" THEN "back_long"
  ELSE "unknown"

FlagBranches == {"help", "version", "insecure", "verbose", "one_line"}

\* variant of BackValue: the implicit value is the default 0
BackValue_ImplicitZero(args, j) ==
  IF j >= Len(args) + 1 \/ LooksLikeOption(args[j]) THEN "0" ELSE args[j]

\* the value -b, --back gets when the token after it is at index j
BackValue(args, j) ==
  IF j >= Len(args) + 1 \/ LooksLikeOption(args[j]) THEN "1" ELSE args[j]

\* the index the loop continues from after -b, --back at index j: the body
\* has advanced to j + 1 and the loop increment advances once more
AfterBack(args, j) == (j + 1) + 1

\* variant of FusedValue: the long form keeps its = sign
FusedValue_KeepEquals(arg) ==
  IF Branch(arg) = "back_short" THEN substr_from(arg, 2) ELSE substr_from(arg, 6)

\* the value text fused to a short or long option
FusedValue(arg) ==
  IF Branch(arg) = "back_short" THEN substr_from(arg, 2) ELSE substr_from(arg, 7)

\* variant of ParseFlag: the scan ends at -h, --help, -V, --version
ParseFlag_StopAtHelp ==
  /\ pc = "parse_options"
  /\ i < argc
  /\ Branch(argv[i]) \in FlagBranches
  /\ opt_map' = try_emplace(opt_map, Branch(argv[i]), <<>>)
  /\ i' = IF Branch(argv[i]) \in {"help", "version"} THEN argc ELSE i + 1
  /\ UNCHANGED curl_vars
  /\ UNCHANGED <<argv, pc, parse_ok, opts, res, rss_items, rss_calls, out,
                 err, exit_code>>

\* -h, -V, -k, -v, -o and their long forms
ParseFlag ==
  /\ pc = "parse_options"
  /\ i < argc
  /\ Branch(argv[i]) \in FlagBranches
  /\ opt_map' = try_emplace(opt_map, Branch(argv[i]), <<>>)
  /\ i' = i + 1
  /\ UNCHANGED curl_vars
  /\ UNCHANGED <<argv, pc, parse_ok, opts, res, rss_items, rss_calls, out,
                 err, exit_code>>

\* -b, --back with the value, if any, in the next token
ParseBack ==
  /\ pc = "parse_options"
  /\ i < argc
  /\ Branch(argv[i]) = "back"
  /\ opt_map' = insert_or_assign(opt_map, "back", <<BackValue(argv, i + 1)>>)
  /\ i' = AfterBack(argv, i)
  /\ UNCHANGED curl_vars
  /\ UNCHANGED <<argv, pc, parse_ok, opts, res, rss_items, rss_calls, out,
                 err, exit_code>>

\* -bN and --back=N
ParseBackFused ==
  /\ pc = "parse_options"
  /\ i < argc
  /\ Branch(argv[i]) \in {"back_short", "back_long"}
  /\ opt_map' = insert_or_assign(opt_map, "back", <<FusedValue(argv[i])>>)
  /\ i' = i + 1
  /\ UNCHANGED curl_vars
  /\ UNCHANGED <<argv, pc, parse_ok, opts, res, rss_items, rss_calls, out,
                 err, exit_code>>

\* unknown option: report it and return false
ParseUnknown ==
  /\ pc = "parse_options"
  /\ i < argc
  /\ Branch(argv[i]) = "unknown"
  /\ err' = Append(err, Line("unknown_option", argv[i], 0))
  /\ parse_ok' = FALSE
  /\ pc' = "extract_args"
  /\ UNCHANGED curl_vars
  /\ UNCHANGED <<argv, i, opt_map, opts, res, rss_items, rss_calls, out,
                 exit_code>>

\* the loop ran to the end: return true
ParseReturn ==
  /\ pc = "parse_options"
  /\ i >= argc
  /\ parse_ok' = TRUE
  /\ pc' = "extract_args"
  /\ UNCHANGED curl_vars
  /\ UNCHANGED <<argv, i, opt_map, opts, res, rss_items, rss_calls, out,
                 err, exit_code>>

-----------------------------------------------------------------------------
(* extract_previous and extract_args *)

\* variant of extract_previous: an = sign that leads the value text is
\* dropped before the conversion
extract_previous_SkipsEquals(m) ==
  IF ~Has(m, "back")
    THEN [previous |-> 0, valid |-> TRUE, diag |-> <<>>]
    ELSE
      LET given == m["back"][1]
          back_input == IF substr(given, 0, 1) = "=" THEN substr_from(given, 1)
                                                     ELSE given
          back == stoi(back_input)
      IN  IF back.status = "invalid_argument"
            THEN [previous |-> 0, valid |-> FALSE,
                  diag |-> <<Line("invalid_argument", back_input, 0)>>]
          ELSE IF back.status = "out_of_range"
            THEN [previous |-> 0, valid |-> FALSE,
                  diag |-> <<Line("out_of_range", back_input, 0)>>]
          ELSE IF back.value < 0
            THEN [previous |-> 0, valid |-> FALSE,
                  diag |-> <<Line("negative", "", back.value)>>]
          ELSE [previous |-> back.value, valid |-> TRUE, diag |-> <<>>]

\* extract_previous: the value of previous, whether it is valid, and the
\* diagnostic written when it is not
extract_previous(m) ==
  IF ~Has(m, "back")
    THEN [previous |-> 0, valid |-> TRUE, diag |-> <<>>]
    ELSE
      LET back_input == m["back"][1]
          back == stoi(back_input)
      IN  IF back.status = "invalid_argument"
            THEN [previous |-> 0, valid |-> FALSE,
                  diag |-> <<Line("invalid_argument", back_input, 0)>>]
          ELSE IF back.status = "out_of_range"
            THEN [previous |-> 0, valid |-> FALSE,
                  diag |-> <<Line("out_of_range", back_input, 0)>>]
          ELSE IF back.value < 0
            THEN [previous |-> 0, valid |-> FALSE,
                  diag |-> <<Line("negative", "", back.value)>>]
          ELSE [previous |-> back.value, valid |-> TRUE, diag |-> <<>>]

\* std::exit(code) and return code from program_main both end the run
Terminate(code) ==
  /\ exit_code' = code
  /\ pc' = "done"

\* variant of ExtractArgsParseFailed: the usage follows the diagnostic
ExtractArgsParseFailed_PrintsUsage ==
  /\ pc = "extract_args"
  /\ ~parse_ok
  /\ err' = Append(err, Line("usage", "", 0))
  /\ Terminate(EXIT_FAILURE)
  /\ UNCHANGED curl_vars
  /\ UNCHANGED <<argv, i, opt_map, parse_ok, opts, res, rss_items, rss_calls,
                 out>>

\* parse_options returned false
ExtractArgsParseFailed ==
  /\ pc = "extract_args"
  /\ ~parse_ok
  /\ Terminate(EXIT_FAILURE)
  /\ UNCHANGED curl_vars
  /\ UNCHANGED <<argv, i, opt_map, parse_ok, opts, res, rss_items, rss_calls,
                 out, err>>

\* variant of ExtractArgsHelp: the usage is printed but the run goes on
ExtractArgsHelp_NoExit ==
  /\ pc = "extract_args"
  /\ parse_ok
  /\ Has(opt_map, "help")
  /\ out' = Append(out, Line("usage", "", 0))
  /\ pc' = "rss_factory"
  /\ UNCHANGED curl_vars
  /\ UNCHANGED <<argv, i, opt_map, parse_ok, opts, res, rss_items, rss_calls,
                 err, exit_code>>

\* help was specified: print the program description and exit
ExtractArgsHelp ==
  /\ pc = "extract_args"
  /\ parse_ok
  /\ Has(opt_map, "help")
  /\ out' = Append(out, Line("usage", "", 0))
  /\ Terminate(EXIT_SUCCESS)
  /\ UNCHANGED curl_vars
  /\ UNCHANGED <<argv, i, opt_map, parse_ok, opts, res, rss_items, rss_calls,
                 err>>

\* version was specified: print the version description and exit
ExtractArgsVersion ==
  /\ pc = "extract_args"
  /\ parse_ok
  /\ ~Has(opt_map, "help")
  /\ Has(opt_map, "version")
  /\ out' = Append(out, Line("version", "", 0))
  /\ Terminate(EXIT_SUCCESS)
  /\ UNCHANGED curl_vars
  /\ UNCHANGED <<argv, i, opt_map, parse_ok, opts, res, rss_items, rss_calls,
                 err>>

\* the value of -b, --back is not valid: report it and exit
ExtractArgsBadPrevious ==
  /\ pc = "extract_args"
  /\ parse_ok
  /\ ~Has(opt_map, "help")
  /\ ~Has(opt_map, "version")
  /\ ~extract_previous(opt_map).valid
  /\ err' = err \o extract_previous(opt_map).diag
  /\ Terminate(EXIT_FAILURE)
  /\ UNCHANGED curl_vars
  /\ UNCHANGED <<argv, i, opt_map, parse_ok, opts, res, rss_items, rss_calls,
                 out>>

\* done, populate struct
ExtractArgsOptions ==
  /\ pc = "extract_args"
  /\ parse_ok
  /\ ~Has(opt_map, "help")
  /\ ~Has(opt_map, "version")
  /\ extract_previous(opt_map).valid
  /\ opts' = [one_line |-> Has(opt_map, "one_line"),
              previous |-> extract_previous(opt_map).previous,
              verbose |-> Has(opt_map, "verbose"),
              insecure |-> Has(opt_map, "insecure")]
  /\ pc' = "rss_factory"
  /\ UNCHANGED curl_vars
  /\ UNCHANGED <<argv, i, opt_map, parse_ok, res, rss_items, rss_calls, out,
                 err, exit_code>>

-----------------------------------------------------------------------------
(* to_item_vector and program_main *)

\* rss_item::from_tree: the item read from a channel child
from_tree(child) == [guid |-> child.guid, img_title |-> child.guid]

\* variant of Throws: an item child that cannot be read is passed over
Throws_SkipBroken(payload) == ~payload.xml \/ ~payload.channel

\* parse_rss or to_item_vector throws: the payload is not XML, it has no
\* rss.channel, or a field of some item child cannot be read
Throws(payload) ==
  \/ ~payload.xml
  \/ ~payload.channel
  \/ \E j \in 1..Len(payload.children) :
       payload.children[j].name = "item" /\ ~payload.children[j].complete

RECURSIVE ItemsFrom(_, _)
\* the items of the children from index j on, in document order
ItemsFrom(children, j) ==
  IF j > Len(children) THEN <<>>
  ELSE IF children[j].name = "item"
    THEN <<from_tree(children[j])>> \o ItemsFrom(children, j + 1)
    ELSE ItemsFrom(children, j + 1)

\* variant of to_item_vector: the name of a child is not looked at
to_item_vector_AllChildren(payload) ==
  [j \in 1..Len(payload.children) |-> from_tree(payload.children[j])]

\* to_item_vector(parse_rss(payload)) when nothing throws
to_item_vector(payload) == ItemsFrom(payload.children, 1)

\* variant of TooFar: the comparison is strict
TooFar_Strict(previous, n_items) == previous > n_items

\* opts.previous >= n_items: too far back
TooFar(previous, n_items) == previous >= n_items

\* rss_items[idx]: the item at the C index idx; a read outside the vector is
\* undefined and yields an item that is none of the document
ItemAt(items, idx) ==
  IF idx < Len(items) THEN items[idx + 1] ELSE [guid |-> 0, img_title |-> 0]

\* get XKCD RSS through the callable given to program_main
RssFactory ==
  /\ pc = "rss_factory"
  /\ \E r \in RssResults : res' = r
  /\ rss_calls' = rss_calls + 1
  /\ pc' = "check_status"
  /\ UNCHANGED curl_vars
  /\ UNCHANGED <<argv, i, opt_map, parse_ok, opts, rss_items, out, err,
                 exit_code>>

\* variant of CurlNotOk: the reason is printed but the run goes on
CurlNotOk_Continues ==
  /\ pc = "check_status"
  /\ res.status # CURLE_OK
  /\ err' = Append(err, Line("curl_error", res.reason, res.status))
  /\ pc' = "select"
  /\ UNCHANGED curl_vars
  /\ UNCHANGED <<argv, i, opt_map, parse_ok, opts, res, rss_items, rss_calls,
                 out, exit_code>>

\* request error: print the reason and return
CurlNotOk ==
  /\ pc = "check_status"
  /\ res.status # CURLE_OK
  /\ err' = Append(err, Line("curl_error", res.reason, res.status))
  /\ Terminate(EXIT_FAILURE)
  /\ UNCHANGED curl_vars
  /\ UNCHANGED <<argv, i, opt_map, parse_ok, opts, res, rss_items, rss_calls,
                 out>>

\* boost::current_exception_diagnostic_information(): the diagnostic text
\* of the exception in flight is not one line; it names the dynamic type of
\* the exception on one line and its what() on the next
ExceptionDiagnostic ==
  <<Line("exception", "Dynamic exception type", 0),
    Line("exception", "std::exception::what", 0)>>

\* variant of ToItemVectorThrows: the status of the other failures
ToItemVectorThrows_SameStatus ==
  /\ pc = "check_status"
  /\ res.status = CURLE_OK
  /\ Throws(res.payload)
  /\ err' = err \o ExceptionDiagnostic
  /\ Terminate(EXIT_FAILURE)
  /\ UNCHANGED curl_vars
  /\ UNCHANGED <<argv, i, opt_map, parse_ok, opts, res, rss_items, rss_calls,
                 out>>

\* the payload cannot be turned into items: print the exception and return
ToItemVectorThrows ==
  /\ pc = "check_status"
  /\ res.status = CURLE_OK
  /\ Throws(res.payload)
  /\ err' = err \o ExceptionDiagnostic
  /\ Terminate(EXIT_FAILURE + 1)
  /\ UNCHANGED curl_vars
  /\ UNCHANGED <<argv, i, opt_map, parse_ok, opts, res, rss_items, rss_calls,
                 out>>

\* the payload is turned into the vector of items
ToItemVector ==
  /\ pc = "check_status"
  /\ res.status = CURLE_OK
  /\ ~Throws(res.payload)
  /\ rss_items' = to_item_vector(res.payload)
  /\ pc' = "select"
  /\ UNCHANGED curl_vars
  /\ UNCHANGED <<argv, i, opt_map, parse_ok, opts, res, rss_calls, out, err,
                 exit_code>>

\* variant of NoItems: without the empty check the bounds check reports
NoItems_AsTooFar ==
  /\ pc = "select"
  /\ Len(rss_items) = 0
  /\ err' = Append(err, Line("too_far_back", "", Len(rss_items) - 1))
  /\ Terminate(EXIT_FAILURE)
  /\ UNCHANGED curl_vars
  /\ UNCHANGED <<argv, i, opt_map, parse_ok, opts, res, rss_items, rss_calls,
                 out>>

\* if empty, error out
NoItems ==
  /\ pc = "select"
  /\ Len(rss_items) = 0
  /\ err' = Append(err, Line("no_items", "", 0))
  /\ Terminate(EXIT_FAILURE)
  /\ UNCHANGED curl_vars
  /\ UNCHANGED <<argv, i, opt_map, parse_ok, opts, res, rss_items, rss_calls,
                 out>>

\* variant of TooFarBack: the last item is printed before the diagnostic
TooFarBack_PrintsLast ==
  /\ pc = "select"
  /\ Len(rss_items) # 0
  /\ TooFar(opts.previous, Len(rss_items))
  /\ out' = Append(out,
       Line("item_one_line", "", ItemAt(rss_items, Len(rss_items) - 1).guid))
  /\ err' = Append(err, Line("too_far_back", "", Len(rss_items) - 1))
  /\ Terminate(EXIT_FAILURE)
  /\ UNCHANGED curl_vars
  /\ UNCHANGED <<argv, i, opt_map, parse_ok, opts, res, rss_items, rss_calls>>

\* if previous is size or greater, too far back
TooFarBack ==
  /\ pc = "select"
  /\ Len(rss_items) # 0
  /\ TooFar(opts.previous, Len(rss_items))
  /\ err' = Append(err, Line("too_far_back", "", Len(rss_items) - 1))
  /\ Terminate(EXIT_FAILURE)
  /\ UNCHANGED curl_vars
  /\ UNCHANGED <<argv, i, opt_map, parse_ok, opts, res, rss_items, rss_calls,
                 out>>

\* print the selected item on one line or fortune-style
PrintItem ==
  /\ pc = "select"
  /\ Len(rss_items) # 0
  /\ ~TooFar(opts.previous, Len(rss_items))
  /\ out' = Append(out,
       Line(IF opts.one_line THEN "item_one_line" ELSE "item_wrapped", "",
            ItemAt(rss_items, opts.previous).guid))
  /\ Terminate(EXIT_SUCCESS)
  /\ UNCHANGED curl_vars
  /\ UNCHANGED <<argv, i, opt_map, parse_ok, opts, res, rss_items, rss_calls,
                 err>>

-----------------------------------------------------------------------------
(* libcurl, init_curl and curl_handle *)

Threads == 1..MaxThreads

\* the curl_handle objects: the one thread t constructs is object t, the
\* others are created by move construction
Objs == 1..(MaxThreads + MaxMoveTargets)

MoveTargets == Objs \ Threads

\* the session handles curl_easy_init can return, in the order it returns them
RawHandles == 1..MaxThreads

\* what curl_global_init can return
GlobalInitCodes == {CURLE_OK, CURLE_FAILED_INIT}

NoOp == [op |-> "none", to |-> 0, from |-> 0, raw |-> NULL]

\* the record of a special member function run on object to, with the
\* object moved from and the session handle that object held before
Op(op, to, from, raw) == [op |-> op, to |-> to, from |-> from, raw |-> raw]

\* curl_easy_cleanup(h): nothing is done for nullptr
curl_easy_cleanup(rel, h) ==
  IF h = NULL THEN rel ELSE [rel EXCEPT ![h] = @ + 1]

\* curl_handle::destroy_handle of object o
destroy_handle(rel, hs, o) == curl_easy_cleanup(rel, hs[o])

\* variant of move: the source keeps its pointer
move_KeepSource(hs, to, from) == [hs EXCEPT ![to] = hs[from]]

\* curl_handle::move: handle_ = other.handle_; other.handle_ = nullptr
move(hs, to, from) == [[hs EXCEPT ![to] = hs[from]] EXCEPT ![from] = NULL]

\* no libcurl call was made and no curl_handle exists
LibUnused ==
  /\ loader = "uninit"
  /\ global_inits = 0
  /\ global_ok = 0
  /\ global_cleanups = 0
  /\ acquired = 0
  /\ released = [h \in RawHandles |-> 0]
  /\ handle_ = [o \in Objs |-> NULL]
  /\ life = [o \in Objs |-> "unborn"]
  /\ last_op = NoOp

\* thread t calls the constructor of its curl_handle
CtorCall(t) ==
  /\ tpc[t] = "idle"
  /\ tpc' = [tpc EXCEPT ![t] = "init_curl"]
  /\ UNCHANGED <<main_vars, ext_vars,
                 lib_vars, obj_vars, get_vars>>

\* variant of LoaderBegin: the initialization of the static is not guarded
LoaderBegin_NoGuard(t) ==
  /\ tpc[t] = "init_curl"
  /\ loader # "done"
  /\ loader' = "running"
  /\ global_inits' = global_inits + 1
  /\ tpc' = [tpc EXCEPT ![t] = "global_init"]
  /\ UNCHANGED <<main_vars, ext_vars,
                 global_ok, global_cleanups, acquired, released,
                 obj_vars, get_vars>>

\* init_curl: the static loader is not initialized and no thread is
\* initializing it; thread t starts the constructor of curl_loader, which
\* calls curl_global_init. A thread that finds another one initializing waits.
LoaderBegin(t) ==
  /\ tpc[t] = "init_curl"
  /\ loader = "uninit"
  /\ loader' = "running"
  /\ global_inits' = global_inits + 1
  /\ tpc' = [tpc EXCEPT ![t] = "global_init"]
  /\ UNCHANGED <<main_vars, ext_vars,
                 global_ok, global_cleanups, acquired, released,
                 obj_vars, get_vars>>

\* curl_global_init returned CURLE_OK: the static is initialized
LoaderOk(t) ==
  /\ tpc[t] = "global_init"
  /\ loader' = "done"
  /\ global_ok' = global_ok + 1
  /\ tpc' = [tpc EXCEPT ![t] = "easy_init"]
  /\ UNCHANGED <<main_vars, ext_vars,
                 global_inits, global_cleanups, acquired, released,
                 obj_vars, get_vars>>

\* curl_global_init failed: curl_loader throws, the static stays
\* uninitialized and the constructor of curl_handle throws
LoaderThrows(t) ==
  /\ tpc[t] = "global_init"
  /\ loader' = "uninit"
  /\ tpc' = [tpc EXCEPT ![t] = "thrown_init"]
  /\ UNCHANGED <<main_vars, ext_vars,
                 global_inits, global_ok, global_cleanups,
                 acquired, released, obj_vars, get_vars>>

\* init_curl: the static is initialized already, the call is a no-op
LoaderDone(t) ==
  /\ tpc[t] = "init_curl"
  /\ loader = "done"
  /\ tpc' = [tpc EXCEPT ![t] = "easy_init"]
  /\ UNCHANGED <<main_vars, ext_vars,
                 lib_vars, obj_vars, get_vars>>

\* curl_easy_init returned a session handle: the object is constructed
EasyInitOk(t) ==
  /\ tpc[t] = "easy_init"
  /\ acquired' = acquired + 1
  /\ handle_' = [handle_ EXCEPT ![t] = acquired + 1]
  /\ life' = [life EXCEPT ![t] = "alive"]
  /\ last_op' = Op("ctor", t, t, NULL)
  /\ tpc' = [tpc EXCEPT ![t] = "constructed"]
  /\ UNCHANGED <<main_vars, ext_vars,
                 loader, global_inits, global_ok, global_cleanups,
                 released, get_vars>>

\* curl_easy_init returned nullptr: the constructor throws
EasyInitNull(t) ==
  /\ tpc[t] = "easy_init"
  /\ tpc' = [tpc EXCEPT ![t] = "thrown_easy_init"]
  /\ UNCHANGED <<main_vars, ext_vars,
                 lib_vars, obj_vars, get_vars>>

\* curl_handle(curl_handle&& other): object a is constructed from object b
MoveCtor(a, b) ==
  /\ a \in MoveTargets
  /\ life[a] = "unborn"
  /\ life[b] = "alive"
  /\ handle_' = move(handle_, a, b)
  /\ life' = [life EXCEPT ![a] = "alive"]
  /\ last_op' = Op("move_ctor", a, b, handle_[b])
  /\ UNCHANGED <<main_vars, ext_vars,
                 lib_vars, tpc, get_vars>>

\* variant of MoveAssign: the handle of the target is not destroyed first
MoveAssign_NoDestroy(a, b) ==
  /\ life[a] = "alive"
  /\ life[b] = "alive"
  /\ handle_' = move(handle_, a, b)
  /\ last_op' = Op("move_asgn", a, b, handle_[b])
  /\ UNCHANGED <<main_vars, ext_vars,
                 lib_vars, life, tpc, get_vars>>

\* operator=(curl_handle&& other): a = std::move(b), also for a = b
MoveAssign(a, b) ==
  /\ life[a] = "alive"
  /\ life[b] = "alive"
  /\ released' = destroy_handle(released, handle_, a)
  /\ handle_' = move(handle_, a, b)
  /\ last_op' = Op("move_asgn", a, b, handle_[b])
  /\ UNCHANGED <<main_vars, ext_vars,
                 loader, global_inits, global_ok, global_cleanups,
                 acquired, life, tpc, get_vars>>

\* why the destructor of a curl_handle runs: its scope is left normally, or
\* the stack is unwound because option<O> or operator() on it threw
DtorReasons == {"scope_exit", "option_raised", "execute_raised"}

\* ~curl_handle of object o
Dtor(o) ==
  /\ life[o] = "alive"
  /\ released' = destroy_handle(released, handle_, o)
  /\ life' = [life EXCEPT ![o] = "dead"]
  /\ \E why \in DtorReasons : last_op' = Op(why, o, o, handle_[o])
  /\ UNCHANGED <<main_vars, ext_vars,
                 loader, global_inits, global_ok, global_cleanups,
                 acquired, handle_, tpc, get_vars>>

-----------------------------------------------------------------------------
(* get_xkcd_rss, curl_get and get_rss *)

\* the options a retrieval function sets on the session handle
OptionNames ==
  {"ERRORBUFFER", "WRITEFUNCTION", "WRITEDATA", "URL", "VERBOSE",
   "SSL_VERIFYPEER"}

\* curl_option_always_ok<O>: the never_fail column of the option traits
curl_option_always_ok(O) == O \in {"ERRORBUFFER", "WRITEFUNCTION", "WRITEDATA"}

\* value of an option that was not set on the handle
Unset == -1

\* conversion of a bool to the long value of an option
Long(b) == IF b THEN 1 ELSE 0

\* what curl_easy_setopt and curl_easy_perform can return
SetoptCodes == {CURLE_OK, CURLE_OUT_OF_MEMORY}
PerformCodes == {CURLE_OK, CURLE_FAILED, CURLE_WRITE_ERROR}

\* the text libcurl puts in the error buffer of a failed transfer
ErrorText == "curl failure"
\* a char array that was declared without initializer and never written
Indeterminate == "(indeterminate)"

\* the texts a read of the error buffer can give: its content, or whatever
\* the memory holds when it was never written
ReadBuffer(buf) ==
  IF buf = Indeterminate THEN {"", ErrorText, "(garbage)"} ELSE {buf}

\* the session handle option table before any option is set
NoneSet == [O \in OptionNames |-> Unset]

\* the curl_handle objects of curl_get: the temporary curl_handle{} and the
\* local handle move-constructed from it
TempObj == 1
HandleObj == 2

NoReturn == [status |-> -1, reason |-> "", payload |-> 0]
NoException == -1

\* a curl_result with the local values of the retrieval function
Result(status, reason, stream) ==
  [status |-> status, reason |-> reason, payload |-> stream]

\* variant of Raises: the status is looked at for every option
Raises_AnyOption(O, status) == status # CURLE_OK

\* curl_handle::set<O> throws curl_error: only for an option that can fail
\* and only when curl_easy_setopt did not return CURLE_OK
Raises(O, status) == ~curl_option_always_ok(O) /\ status # CURLE_OK

\* the long value get_xkcd_rss binds to CURLOPT_SSL_VERIFYPEER
VerifyPeerValue(o) == Long(o.insecure)

\* get_xkcd_rss binds the verbose and insecure options and calls the
\* retrieval function with them
GetXkcdRss ==
  /\ gpc = "call"
  /\ goptions' = <<[name |-> "VERBOSE", value |-> Long(opts.verbose)],
                   [name |-> "SSL_VERIFYPEER", value |-> VerifyPeerValue(opts)]>>
  /\ gpc' = IF gfn = "curl_get" THEN "ctor_init_curl" ELSE "global_init"
  /\ UNCHANGED <<main_vars, ext_vars,
                 lib_vars, obj_vars, tpc, gfn, gk, gstatus,
                 gerrbuf, greason, gstream, gset, ghandle, gret, gescaped>>

\* curl_get, curl_handle{}: init_curl. When curl_global_init fails the
\* curl_error is thrown outside the try block and leaves curl_get.
CurlGetInitCurl ==
  /\ gpc = "ctor_init_curl"
  /\ IF loader = "done"
       THEN /\ gpc' = "ctor_easy_init"
            /\ UNCHANGED <<loader, global_inits, global_ok, gescaped>>
       ELSE \E st \in GlobalInitCodes :
              /\ global_inits' = global_inits + 1
              /\ IF st = CURLE_OK
                   THEN /\ loader' = "done"
                        /\ global_ok' = global_ok + 1
                        /\ gpc' = "ctor_easy_init"
                        /\ UNCHANGED gescaped
                   ELSE /\ gescaped' = st
                        /\ gpc' = "escaped"
                        /\ UNCHANGED <<loader, global_ok>>
  /\ UNCHANGED <<main_vars, ext_vars,
                 global_cleanups, acquired, released, obj_vars,
                 tpc, gfn, gk, goptions, gstatus, gerrbuf, greason, gstream,
                 gset, ghandle, gret>>

\* curl_get, curl_handle{}: curl_easy_init. On nullptr the curl_error is
\* thrown outside the try block and leaves curl_get.
CurlGetEasyInit ==
  /\ gpc = "ctor_easy_init"
  /\ \/ /\ acquired' = acquired + 1
        /\ handle_' = [handle_ EXCEPT ![TempObj] = acquired + 1]
        /\ life' = [life EXCEPT ![TempObj] = "alive"]
        /\ last_op' = Op("ctor", TempObj, TempObj, NULL)
        /\ gpc' = "chain"
        /\ UNCHANGED gescaped
     \/ /\ gescaped' = CURLE_FAILED_INIT
        /\ gpc' = "escaped"
        /\ UNCHANGED <<acquired, obj_vars>>
  /\ UNCHANGED <<main_vars, ext_vars,
                 loader, global_inits, global_ok, global_cleanups,
                 released, tpc, gfn, gk, goptions, gstatus, gerrbuf, greason,
                 gstream, gset, ghandle, gret>>

\* curl_get: the three options that are always ok are set on the temporary,
\* handle is move-constructed from it and the temporary is destroyed
CurlGetChain ==
  /\ gpc = "chain"
  /\ gset' = [gset EXCEPT !["ERRORBUFFER"] = 1, !["WRITEFUNCTION"] = 1,
                          !["WRITEDATA"] = 1]
  /\ handle_' = move(handle_, HandleObj, TempObj)
  /\ released' = destroy_handle(released, handle_', TempObj)
  /\ life' = [life EXCEPT ![HandleObj] = "alive", ![TempObj] = "dead"]
  /\ last_op' = Op("move_ctor", HandleObj, TempObj, handle_[TempObj])
  /\ gpc' = "set_url"
  /\ UNCHANGED <<main_vars, ext_vars,
                 loader, global_inits, global_ok, global_cleanups,
                 acquired, tpc, gfn, gk, goptions, gstatus, gerrbuf, greason,
                 gstream, ghandle, gret, gescaped>>

\* curl_get: handle.option<CURLOPT_URL>(url.c_str()) inside the try block;
\* the catch clause takes the status of the curl_error
CurlGetSetUrl ==
  /\ gpc = "set_url"
  /\ \E st \in SetoptCodes :
       IF Raises("URL", st)
         THEN /\ gstatus' = st
              /\ gpc' = "return"
              /\ UNCHANGED gset
         ELSE /\ gset' = [gset EXCEPT !["URL"] = 1]
              /\ gpc' = "set_options"
              /\ UNCHANGED gstatus
  /\ UNCHANGED <<main_vars, ext_vars,
                 lib_vars, obj_vars, tpc, gfn, gk, goptions,
                 gerrbuf, greason, gstream, ghandle, gret, gescaped>>

\* curl_get: (handle.option(options), ...), one option of the fold
CurlGetSetOption ==
  /\ gpc = "set_options"
  /\ gk <= Len(goptions)
  /\ \E st \in SetoptCodes :
       IF Raises(goptions[gk].name, st)
         THEN /\ gstatus' = st
              /\ gpc' = "return"
              /\ UNCHANGED <<gset, gk>>
         ELSE /\ gset' = [gset EXCEPT ![goptions[gk].name] = goptions[gk].value]
              /\ gk' = gk + 1
              /\ UNCHANGED <<gstatus, gpc>>
  /\ UNCHANGED <<main_vars, ext_vars,
                 lib_vars, obj_vars, tpc, gfn, goptions, gerrbuf,
                 greason, gstream, ghandle, gret, gescaped>>

\* curl_get: handle() calls curl_easy_perform
CurlGetPerform ==
  /\ gpc = "set_options"
  /\ gk > Len(goptions)
  /\ gpc' = "perform"
  /\ UNCHANGED <<main_vars, ext_vars,
                 lib_vars, obj_vars, tpc, gfn, gk, goptions,
                 gstatus, gerrbuf, greason, gstream, gset, ghandle, gret,
                 gescaped>>

\* detail::curl_writer, called by libcurl during the transfer with one more
\* chunk: every char of the chunk is put into the stream and n_items is
\* returned. std::ostream::put does not throw on a stream whose exception
\* mask is empty: when the buffer cannot grow the stream gets badbit, this
\* and every later put append nothing, and the catch block is not entered
CurlWriter ==
  /\ gpc \in {"perform", "rss_perform"}
  /\ gacked < MaxChunks
  /\ \E put_fails \in BOOLEAN :
       IF gbad \/ put_fails
         THEN /\ gbad' = TRUE
              /\ UNCHANGED gstream
         ELSE /\ gstream' = gstream + 1
              /\ UNCHANGED gbad
  /\ gacked' = gacked + 1
  /\ UNCHANGED <<main_vars, set_vars, strerror_vars, lib_vars, obj_vars, tpc,
                 gfn, gpc, gk, goptions, gstatus, gerrbuf, greason, gset,
                 ghandle, gret, gescaped>>

\* curl_get: curl_easy_perform returns; on failure libcurl has written the
\* error buffer, operator() throws and the catch clause takes the status
CurlGetPerformed ==
  /\ gpc = "perform"
  /\ \E st \in PerformCodes :
       IF st # CURLE_OK
         THEN /\ gstatus' = st
              /\ gerrbuf' = ErrorText
         ELSE UNCHANGED <<gstatus, gerrbuf>>
  /\ gpc' = "return"
  /\ UNCHANGED <<main_vars, ext_vars,
                 lib_vars, obj_vars, tpc, gfn, gk, goptions,
                 greason, gstream, gset, ghandle, gret, gescaped>>

\* curl_get: return {status, errbuf, request_type::get, stream.str()}; the
\* destructor of handle runs
CurlGetReturn ==
  /\ gpc = "return"
  /\ gret' = Result(gstatus, gerrbuf, gstream)
  /\ released' = destroy_handle(released, handle_, HandleObj)
  /\ life' = [life EXCEPT ![HandleObj] = "dead"]
  /\ last_op' = Op("scope_exit", HandleObj, HandleObj, handle_[HandleObj])
  /\ gpc' = "returned"
  /\ UNCHANGED <<main_vars, ext_vars,
                 loader, global_inits, global_ok, global_cleanups,
                 acquired, handle_, tpc, gfn, gk, goptions, gstatus, gerrbuf,
                 greason, gstream, gset, ghandle, gescaped>>

\* get_rss: status = curl_global_init(CURL_GLOBAL_DEFAULT) and its handler
GetRssGlobalInit ==
  /\ gpc = "global_init"
  /\ global_inits' = global_inits + 1
  /\ \E st \in GlobalInitCodes :
       /\ gstatus' = st
       /\ IF st = CURLE_OK
            THEN /\ global_ok' = global_ok + 1
                 /\ gpc' = "easy_init"
                 /\ UNCHANGED greason
            ELSE /\ greason' = "Global init error"
                 /\ gpc' = "clean_global"
                 /\ UNCHANGED global_ok
  /\ UNCHANGED <<main_vars, ext_vars,
                 loader, global_cleanups, acquired, released,
                 obj_vars, tpc, gfn, gk, goptions, gerrbuf, gstream, gset,
                 ghandle, gret, gescaped>>

\* get_rss: handle = curl_easy_init(); on nullptr the reason is set, status
\* is left as it is and the cleanup follows; else errbuf is declared without
\* initializer and the error buffer, the writer and its target are set
GetRssEasyInit ==
  /\ gpc = "easy_init"
  /\ \/ /\ acquired' = acquired + 1
        /\ ghandle' = acquired + 1
        /\ gerrbuf' = Indeterminate
        /\ gset' = [gset EXCEPT !["ERRORBUFFER"] = 1, !["WRITEFUNCTION"] = 1,
                                !["WRITEDATA"] = 1]
        /\ gpc' = "rss_set_url"
        /\ UNCHANGED greason
     \/ /\ ghandle' = NULL
        /\ greason' = "curl_easy_init errored"
        /\ gpc' = "clean_easy"
        /\ UNCHANGED <<acquired, gerrbuf, gset>>
  /\ UNCHANGED <<main_vars, ext_vars,
                 loader, global_inits, global_ok, global_cleanups,
                 released, obj_vars, tpc, gfn, gk, goptions, gstatus, gstream,
                 gret, gescaped>>

\* get_rss: status = curl_easy_setopt(handle, CURLOPT_URL, ...) and its
\* handler, which copies errbuf to reason
GetRssSetUrl ==
  /\ gpc = "rss_set_url"
  /\ \E st \in SetoptCodes :
       /\ gstatus' = st
       /\ IF st = CURLE_OK
            THEN /\ gset' = [gset EXCEPT !["URL"] = 1]
                 /\ gpc' = "rss_set_options"
                 /\ UNCHANGED greason
            ELSE /\ greason' \in ReadBuffer(gerrbuf)
                 /\ gpc' = "clean_easy"
                 /\ UNCHANGED gset
  /\ UNCHANGED <<main_vars, ext_vars,
                 lib_vars, obj_vars, tpc, gfn, gk, goptions,
                 gerrbuf, gstream, ghandle, gret, gescaped>>

\* get_rss: one option of the fold, set while status is good, and the
\* handler after the fold
GetRssSetOption ==
  /\ gpc = "rss_set_options"
  /\ gk <= Len(goptions)
  /\ \E st \in SetoptCodes :
       /\ gstatus' = st
       /\ IF st = CURLE_OK
            THEN /\ gset' = [gset EXCEPT ![goptions[gk].name] = goptions[gk].value]
                 /\ gk' = gk + 1
                 /\ UNCHANGED <<greason, gpc>>
            ELSE /\ greason' \in ReadBuffer(gerrbuf)
                 /\ gpc' = "clean_easy"
                 /\ UNCHANGED <<gset, gk>>
  /\ UNCHANGED <<main_vars, ext_vars,
                 lib_vars, obj_vars, tpc, gfn, goptions, gerrbuf,
                 gstream, ghandle, gret, gescaped>>

\* get_rss: status = curl_easy_perform(handle) is called
GetRssPerform ==
  /\ gpc = "rss_set_options"
  /\ gk > Len(goptions)
  /\ gpc' = "rss_perform"
  /\ UNCHANGED <<main_vars, ext_vars,
                 lib_vars, obj_vars, tpc, gfn, gk, goptions,
                 gstatus, gerrbuf, greason, gstream, gset, ghandle, gret,
                 gescaped>>

\* get_rss: curl_easy_perform returns; on failure libcurl has written the
\* error buffer and the handler copies it to reason
GetRssPerformed ==
  /\ gpc = "rss_perform"
  /\ \E st \in PerformCodes :
       /\ gstatus' = st
       /\ IF st # CURLE_OK
            THEN /\ gerrbuf' = ErrorText
                 /\ greason' = ErrorText
            ELSE UNCHANGED <<gerrbuf, greason>>
  /\ gpc' = "clean_easy"
  /\ UNCHANGED <<main_vars, ext_vars,
                 lib_vars, obj_vars, tpc, gfn, gk, goptions,
                 gstream, gset, ghandle, gret, gescaped>>

\* get_rss, clean_easy: curl_easy_cleanup(handle)
GetRssCleanEasy ==
  /\ gpc = "clean_easy"
  /\ released' = curl_easy_cleanup(released, ghandle)
  /\ gpc' = "clean_global"
  /\ UNCHANGED <<main_vars, ext_vars,
                 loader, global_inits, global_ok, global_cleanups,
                 acquired, obj_vars, tpc, gfn, gk, goptions, gstatus, gerrbuf,
                 greason, gstream, gset, ghandle, gret, gescaped>>

\* get_rss, clean_global: curl_global_cleanup() and
\* return {status, reason, request_type::GET, stream.str()}
GetRssCleanGlobal ==
  /\ gpc = "clean_global"
  /\ global_cleanups' = global_cleanups + 1
  /\ gret' = Result(gstatus, greason, gstream)
  /\ gpc' = "returned"
  /\ UNCHANGED <<main_vars, ext_vars,
                 loader, global_inits, global_ok, acquired,
                 released, obj_vars, tpc, gfn, gk, goptions, gstatus, gerrbuf,
                 greason, gstream, gset, ghandle, gescaped>>

\* no retrieval function was called
GetUnused ==
  /\ gfn = "curl_get"
  /\ gpc = "call"
  /\ gk = 1
  /\ goptions = <<>>
  /\ gstatus = CURLE_OK
  /\ gerrbuf = ""
  /\ greason = ""
  /\ gstream = 0
  /\ gset = NoneSet
  /\ ghandle = NULL
  /\ gret = NoReturn
  /\ gescaped = NoException

\* the write callback was not called
WriterUnused ==
  /\ gacked = 0
  /\ gbad = FALSE

-----------------------------------------------------------------------------
(* curl_handle::set and curl_error *)

\* number of calls of set made on one handle
MaxSets == 2

CURLE_BAD_FUNCTION_ARGUMENT == 43

\* what curl_easy_setopt may return
SetCodes == SetoptCodes \cup {CURLE_BAD_FUNCTION_ARGUMENT}

\* the values of curl_option_value_type<O>: an address for the pointer
\* options, a long for the others
OptionValues(O) == IF O \in {"VERBOSE", "SSL_VERIFYPEER"} THEN {0, 1} ELSE {1}

\* curl_easy_strerror: the text libcurl has for a status
curl_easy_strerror(status) ==
  CASE status = CURLE_OK -> "No error"
    [] status = CURLE_FAILED_INIT -> "Failed initialization"
    [] status = CURLE_FAILED -> "Could not resolve hostname"
    [] status = CURLE_WRITE_ERROR -> "Failed writing received data"
    [] status = CURLE_OUT_OF_MEMORY -> "Out of memory"
    [] status = CURLE_BAD_FUNCTION_ARGUMENT ->
         "A libcurl function was given a bad argument"

\* curl_error::curl_error(site, status, message): status_ and error_text_
curl_error(status) ==
  [status |-> status, error_text |-> curl_easy_strerror(status)]

NoError == [status |-> NoException, error_text |-> ""]

NoCall == [option |-> "", value |-> Unset, code |-> CURLE_OK]

\* curl_handle::set<O>(value): curl_easy_setopt is called, and its status is
\* looked at only if the option is not always ok
set ==
  /\ thrown = NoError
  /\ gk <= MaxSets
  /\ \E O \in OptionNames :
       \E value \in OptionValues(O), status \in SetCodes :
         /\ scall' = [option |-> O, value |-> value, code |-> status]
         /\ gset' = IF status = CURLE_OK THEN [gset EXCEPT ![O] = value]
                                         ELSE gset
         /\ thrown' = IF Raises(O, status) THEN curl_error(status) ELSE NoError
  /\ gk' = gk + 1
  /\ UNCHANGED <<main_vars, writer_vars, strerror_vars, lib_vars, obj_vars,
                 tpc, gfn, gpc, goptions, gstatus, gerrbuf, greason, gstream,
                 ghandle, gret, gescaped>>

\* set was not called
SetUnused ==
  /\ scall = NoCall
  /\ thrown = NoError

-----------------------------------------------------------------------------
(* pdxka::strerror *)

ENOMEM == 12
EINVAL == 22

\* the error codes the threads pass
Errnos == {ENOMEM, EINVAL}

\* no text
NoText == 0

\* the message of an error code, as its two halves
Message(e) == <<e, e>>

\* std::strerror may return the address of a constant of a table of messages,
\* or the address of one static buffer it has filled: ISO C lets a later call
\* overwrite what an earlier one returned
StrerrorImpls == {"table", "buffer"}

\* pdxka::strerror: std::lock_guard lock{mut}, by the thread that passes e
StrerrorLock(t) ==
  /\ spc[t] = "idle"
  /\ mut = 0
  /\ mut' = t
  /\ \E e \in Errnos : scode' = [scode EXCEPT ![t] = e]
  /\ spc' = [spc EXCEPT ![t] = "strerror"]
  /\ UNCHANGED <<main_vars, writer_vars, set_vars, lib_vars, obj_vars, tpc,
                 get_vars, simpl, sbuf, sptr, scopy>>

\* std::strerror(err) starts: an implementation with a buffer writes the
\* first half of the message
StrerrorBegin(t) ==
  /\ spc[t] = "strerror"
  /\ sbuf' = IF simpl = "buffer" THEN <<scode[t], sbuf[2]>> ELSE sbuf
  /\ spc' = [spc EXCEPT ![t] = "in_strerror"]
  /\ UNCHANGED <<main_vars, writer_vars, set_vars, lib_vars, obj_vars, tpc,
                 get_vars, simpl, mut, scode, sptr, scopy>>

\* std::strerror(err) writes the rest and returns; pdxka::strerror returns
\* the same pointer and the lock_guard releases the mutex
StrerrorReturn(t) ==
  /\ spc[t] = "in_strerror"
  /\ sbuf' = IF simpl = "buffer" THEN <<sbuf[1], scode[t]>> ELSE sbuf
  /\ sptr' = [sptr EXCEPT ![t] = simpl]
  /\ mut' = 0
  /\ spc' = [spc EXCEPT ![t] = "returned"]
  /\ UNCHANGED <<main_vars, writer_vars, set_vars, lib_vars, obj_vars, tpc,
                 get_vars, simpl, scode, scopy>>

\* what the pointer a thread holds points to
Pointee(t) == IF sptr[t] = "buffer" THEN sbuf ELSE Message(scode[t])

\* the caller copies the text into a std::string: the first half
CopyBegin(t) ==
  /\ spc[t] = "returned"
  /\ scopy' = [scopy EXCEPT ![t] = <<Pointee(t)[1], NoText>>]
  /\ spc' = [spc EXCEPT ![t] = "copying"]
  /\ UNCHANGED <<main_vars, writer_vars, set_vars, lib_vars, obj_vars, tpc,
                 get_vars, simpl, mut, scode, sbuf, sptr>>

\* the caller copies the second half
CopyEnd(t) ==
  /\ spc[t] = "copying"
  /\ scopy' = [scopy EXCEPT ![t] = <<scopy[t][1], Pointee(t)[2]>>]
  /\ spc' = [spc EXCEPT ![t] = "copied"]
  /\ UNCHANGED <<main_vars, writer_vars, set_vars, lib_vars, obj_vars, tpc,
                 get_vars, simpl, mut, scode, sbuf, sptr>>

\* pdxka::strerror was not called
StrerrorUnused ==
  /\ simpl = "table"
  /\ mut = 0
  /\ spc = [t \in Threads |-> "idle"]
  /\ scode = [t \in Threads |-> 0]
  /\ sbuf = <<NoText, NoText>>
  /\ sptr = [t \in Threads |-> "none"]
  /\ scopy = [t \in Threads |-> <<NoText, NoText>>]

\* none of the three is in use
ExtUnused == WriterUnused /\ SetUnused /\ StrerrorUnused

-----------------------------------------------------------------------------
(* The runs of program_main *)

Init ==
  /\ argv \in ArgLists
  /\ pc = "parse_options"
  /\ i = 1
  /\ opt_map = EmptyMap
  /\ parse_ok = FALSE
  /\ opts = NoOpts
  /\ res = NoResult
  /\ rss_items = <<>>
  /\ rss_calls = 0
  /\ out = <<>>
  /\ err = <<>>
  /\ exit_code = NoExit
  /\ LibUnused
  /\ tpc = [t \in Threads |-> "idle"]
  /\ GetUnused
  /\ ExtUnused

Next ==
  \/ ParseFlag
  \/ ParseBack
  \/ ParseBackFused
  \/ ParseUnknown
  \/ ParseReturn
  \/ ExtractArgsParseFailed
  \/ ExtractArgsHelp
  \/ ExtractArgsVersion
  \/ ExtractArgsBadPrevious
  \/ ExtractArgsOptions
  \/ RssFactory
  \/ CurlNotOk
  \/ ToItemVectorThrows
  \/ ToItemVector
  \/ NoItems
  \/ TooFarBack
  \/ PrintItem

Spec == Init /\ [][Next]_vars

-----------------------------------------------------------------------------
(* Threads that construct, move and destroy curl_handle objects *)

\* program_main is not running
MainUnused ==
  /\ argv = <<>>
  /\ pc = "rss_factory"
  /\ i = 1
  /\ opt_map = EmptyMap
  /\ parse_ok = TRUE
  /\ res = NoResult
  /\ rss_items = <<>>
  /\ rss_calls = 0
  /\ out = <<>>
  /\ err = <<>>
  /\ exit_code = NoExit

InitHandles ==
  /\ MainUnused
  /\ opts = NoOpts
  /\ LibUnused
  /\ tpc = [t \in Threads |-> "idle"]
  /\ GetUnused
  /\ ExtUnused

NextHandles ==
  \/ \E t \in Threads : CtorCall(t)
  \/ \E t \in Threads : LoaderBegin(t)
  \/ \E t \in Threads : LoaderOk(t)
  \/ \E t \in Threads : LoaderThrows(t)
  \/ \E t \in Threads : LoaderDone(t)
  \/ \E t \in Threads : EasyInitOk(t)
  \/ \E t \in Threads : EasyInitNull(t)
  \/ \E a \in Objs, b \in Objs : MoveCtor(a, b)
  \/ \E a \in Objs, b \in Objs : MoveAssign(a, b)
  \/ \E o \in Objs : Dtor(o)

SpecHandles == InitHandles /\ [][NextHandles]_vars

-----------------------------------------------------------------------------
(* One call of get_xkcd_rss as the rss_factory of program_main *)

\* the Options Records extract_args can hand to rss_factory, as far as the
\* retrieval reads them
OptionRecords ==
  {[one_line |-> FALSE, previous |-> 0, verbose |-> v, insecure |-> k] :
     v \in BOOLEAN, k \in BOOLEAN}

InitGet ==
  /\ MainUnused
  /\ opts \in OptionRecords
  /\ loader \in {"uninit", "done"}
  /\ global_inits = IF loader = "done" THEN 1 ELSE 0
  /\ global_ok = global_inits
  /\ global_cleanups = 0
  /\ acquired = 0
  /\ released = [h \in RawHandles |-> 0]
  /\ handle_ = [o \in Objs |-> NULL]
  /\ life = [o \in Objs |-> "unborn"]
  /\ last_op = NoOp
  /\ tpc = [t \in Threads |-> "idle"]
  /\ gfn \in {"curl_get", "get_rss"}
  /\ gpc = "call"
  /\ gk = 1
  /\ goptions = <<>>
  /\ gstatus = CURLE_OK
  /\ gerrbuf = ""
  /\ greason = ""
  /\ gstream = 0
  /\ gset = NoneSet
  /\ ghandle = NULL
  /\ gret = NoReturn
  /\ gescaped = NoException
  /\ ExtUnused

NextGet ==
  \/ GetXkcdRss
  \/ CurlGetInitCurl
  \/ CurlGetEasyInit
  \/ CurlGetChain
  \/ CurlGetSetUrl
  \/ CurlGetSetOption
  \/ CurlGetPerform
  \/ CurlWriter
  \/ CurlGetPerformed
  \/ CurlGetReturn
  \/ GetRssGlobalInit
  \/ GetRssEasyInit
  \/ GetRssSetUrl
  \/ GetRssSetOption
  \/ GetRssPerform
  \/ GetRssPerformed
  \/ GetRssCleanEasy
  \/ GetRssCleanGlobal

SpecGet == InitGet /\ [][NextGet]_vars

-----------------------------------------------------------------------------
(* Calls of curl_handle::set on one handle *)

InitSet ==
  /\ MainUnused
  /\ opts = NoOpts
  /\ LibUnused
  /\ tpc = [t \in Threads |-> "idle"]
  /\ GetUnused
  /\ WriterUnused
  /\ SetUnused
  /\ StrerrorUnused

NextSet == set

SpecSet == InitSet /\ [][NextSet]_vars

-----------------------------------------------------------------------------
(* Threads that call pdxka::strerror and copy the text *)

InitStrerror ==
  /\ MainUnused
  /\ opts = NoOpts
  /\ LibUnused
  /\ tpc = [t \in Threads |-> "idle"]
  /\ GetUnused
  /\ WriterUnused
  /\ SetUnused
  /\ simpl \in StrerrorImpls
  /\ mut = 0
  /\ spc = [t \in Threads |-> "idle"]
  /\ scode = [t \in Threads |-> 0]
  /\ sbuf = <<NoText, NoText>>
  /\ sptr = [t \in Threads |-> "none"]
  /\ scopy = [t \in Threads |-> <<NoText, NoText>>]

NextStrerror ==
  \/ \E t \in Threads : StrerrorLock(t)
  \/ \E t \in Threads : StrerrorBegin(t)
  \/ \E t \in Threads : StrerrorReturn(t)
  \/ \E t \in Threads : CopyBegin(t)
  \/ \E t \in Threads : CopyEnd(t)

SpecStrerror == InitStrerror /\ [][NextStrerror]_vars

-----------------------------------------------------------------------------
(* Vocabulary of the properties *)

Done == pc = "done"

\* extract_args has returned the Options Record
HasOptions == pc = "rss_factory" \/ rss_calls > 0

UsageLine == Line("usage", "", 0)
VersionLine == Line("version", "", 0)

\* the line printed for the item of guid g
ItemLines(g) == {Line("item_one_line", "", g), Line("item_wrapped", "", g)}

\* some item was printed
ItemPrinted ==
  \E n \in 1..Len(out) : out[n].kind \in {"item_one_line", "item_wrapped"}

\* s is a non-empty run of decimal digits
AllDigits(s) == Len(s) > 0 /\ \A n \in 0..(Len(s) - 1) : CharAt(s, n) \in Digits

RECURSIVE DecimalValue(_)
\* the number a run of decimal digits denotes
DecimalValue(s) ==
  IF Len(s) = 0 THEN 0
  ELSE DecimalValue(SubSeq(s, 1, Len(s) - 1)) * 10
         + DigitVal(CharAt(s, Len(s) - 1))

\* the run of digits s denotes a number of at most IntMax
InIntRange(s) ==
  \/ Len(s) <= 9
  \/ /\ Len(s) = 10
     /\ \/ DecimalValue(SubSeq(s, 1, 9)) < IntMax \div 10
        \/ /\ DecimalValue(SubSeq(s, 1, 9)) = IntMax \div 10
           /\ DigitVal(CharAt(s, 9)) <= IntMax % 10

\* s is the text of a non-negative integer representable as int
IsIntText(s) == AllDigits(s) /\ InIntRange(s)

\* tok is a hyphen followed by digits, such as -1900
IsNegativeNumber(tok) ==
  Len(tok) >= 2 /\ CharAt(tok, 0) = "-" /\ AllDigits(substr_from(tok, 1))

BareBack == {"-b", "--back"}
HelpTokens == {"-h", "--help"}
VersionTokens == {"-V", "--version"}
PlainFlags == {"-k", "--insecure", "-v", "--verbose", "-o", "--one-line"}

\* every token of args outside the positions in keep is -k, -v, -o or a
\* long form of these
OnlyFlagsBeside(args, keep) ==
  \A n \in 1..Len(args) : n \in keep \/ args[n] \in PlainFlags

\* the positions of the item children of a channel, in document order
ItemPositions(children) ==
  {j \in 1..Len(children) : children[j].name = "item"}

\* the document position of the item at offset p from the first item
PositionAtOffset(children, p) ==
  CHOOSE j \in ItemPositions(children) :
    Cardinality({n \in ItemPositions(children) : n < j}) = p

-----------------------------------------------------------------------------
(* C1: when -b or --back is immediately followed by a token that starts    *)
(* with a hyphen, back is the implicit 1 and the following token is        *)
(* scanned as its own argument; so in a list of supported option tokens    *)
(* where -h or --help follows -b or --back, the help request is recorded   *)
(* and the usage text is printed with status 0.                            *)
C1_RescanAfterBack ==
  (/\ Done
   /\ \A n \in 1..Len(argv) :
        argv[n] \in BareBack \cup HelpTokens \cup PlainFlags
   /\ \E j \in 1..(Len(argv) - 1) :
        argv[j] \in BareBack /\ argv[j + 1] \in HelpTokens)
  => (/\ Has(opt_map, "help")
      /\ out = <<UsageLine>>
      /\ exit_code = EXIT_SUCCESS)

(* C2: in every run whose argument list was accepted with a help or        *)
(* version request matched, the usage (version) text is written to         *)
(* standard output, the status is 0 and rss_factory is never invoked.      *)
C2_HelpVersionWithoutFeed ==
  (/\ pc # "parse_options"
   /\ parse_ok
   /\ (Has(opt_map, "help") \/ Has(opt_map, "version")))
  => (/\ rss_calls = 0
      /\ pc \in {"extract_args", "done"}
      /\ Done => /\ exit_code = EXIT_SUCCESS
                 /\ out = IF Has(opt_map, "help") THEN <<UsageLine>>
                                                  ELSE <<VersionLine>>)

C2_Witness ==
  /\ Done
  /\ parse_ok
  /\ Has(opt_map, "version")
  /\ ~Has(opt_map, "help")
  /\ Has(opt_map, "back")
  /\ out = <<VersionLine>>
  /\ exit_code = EXIT_SUCCESS

\* the value text given to -b, --back at position j in one of the forms
\* -bN, --back=N, -b N, --back N; the empty text when none is given there
GivenBackText(args, j) ==
  IF args[j] \in BareBack
    THEN (IF j + 1 <= Len(args) THEN args[j + 1] ELSE "")
  ELSE IF substr(args[j], 0, 2) = "-b" THEN substr_from(args[j], 2)
  ELSE IF substr(args[j], 0, 7) = "--back=" THEN substr_from(args[j], 7)
  ELSE ""

\* the positions the occurrence of -b, --back at position j takes up
BackSpan(args, j) == IF args[j] \in BareBack THEN {j, j + 1} ELSE {j}

\* the list gives the value of a non-negative int once, at position j, in
\* one of the four forms, and holds only -k, -v, -o flags otherwise
GivesBackOnceAt(args, j) ==
  /\ IsIntText(GivenBackText(args, j))
  /\ OnlyFlagsBeside(args, BackSpan(args, j))

(* C3: for every non-negative integer n representable as int, a list that  *)
(* gives the value once as -bN, -b N, --back N or --back=N yields an       *)
(* Options Record with previous = n, and with a feed of more than n items  *)
(* the run exits 0 having printed the item at offset n.                    *)
C3_BackValueForms ==
  \A j \in 1..Len(argv) :
    GivesBackOnceAt(argv, j) =>
      LET n == DecimalValue(GivenBackText(argv, j))
      IN  /\ pc = "extract_args" => parse_ok
          /\ Done => rss_calls = 1
          /\ HasOptions => opts.previous = n
          /\ (Done /\ Len(rss_items) > n) =>
               /\ exit_code = EXIT_SUCCESS
               /\ Len(out) = 1
               /\ out[1] \in ItemLines(rss_items[n + 1].guid)

C3_Witness ==
  /\ Done
  /\ Len(argv) = 3
  /\ argv[2] = "--back"
  /\ GivesBackOnceAt(argv, 2)
  /\ opts.previous = 2
  /\ Len(rss_items) = 3
  /\ exit_code = EXIT_SUCCESS
  /\ out[1].num = 3

\* no token after position j is an occurrence of -b, --back in any form
NoLaterBack(args, j) ==
  \A n \in (j + 1)..Len(args) :
    Branch(args[n]) \notin {"back", "back_short", "back_long"}

(* C4: whenever -b or --back is the last token or is followed by a token   *)
(* starting with a hyphen, and no later occurrence of -b, --back overrides *)
(* it, the Options Record has previous = 1.                                *)
C4_ImplicitBack ==
  \A j \in 1..Len(argv) :
    (/\ argv[j] \in BareBack
     /\ (j = Len(argv) \/ LooksLikeOption(argv[j + 1]))
     /\ NoLaterBack(argv, j)
     /\ HasOptions)
    => opts.previous = 1

C4_Witness ==
  /\ Done
  /\ Len(argv) = 3
  /\ argv[1] = "-b2"
  /\ argv[2] = "--back"
  /\ argv[3] = "-k"
  /\ opts.previous = 1
  /\ exit_code = EXIT_SUCCESS
  /\ out[1].num = 2

(* C5: when -b or --back is followed by a separate token that is a         *)
(* negative number, as in -b -1900, the run is rejected as an argument     *)
(* error: a diagnostic is reported, the status is non-zero and no item is  *)
(* printed.                                                                *)
C5_SeparateNegativeRejected ==
  (/\ Done
   /\ \E j \in 1..(Len(argv) - 1) :
        /\ argv[j] \in BareBack
        /\ IsNegativeNumber(argv[j + 1])
        /\ OnlyFlagsBeside(argv, {j, j + 1}))
  => (/\ exit_code # EXIT_SUCCESS
      /\ err # <<>>
      /\ ~ItemPrinted)

\* tok is -b fused to a hyphen and digits, such as -b-9888
IsFusedNegative(tok) ==
  Len(tok) >= 4 /\ substr(tok, 0, 3) = "-b-" /\ AllDigits(substr_from(tok, 3))

\* the only diagnostic is the unknown-option one naming tok
UnknownOptionReported(tok) == err = <<Line("unknown_option", tok, 0)>>

(* C6: a token in which a hyphen-prefixed number is fused to the short     *)
(* option, -b-<digits>, is rejected as an unknown-option failure and the   *)
(* run exits non-zero.                                                     *)
C6_FusedNegativeUnknown ==
  \A j \in 1..Len(argv) :
    (/\ Done
     /\ IsFusedNegative(argv[j])
     /\ OnlyFlagsBeside(argv, {j}))
    => (/\ exit_code # EXIT_SUCCESS
        /\ UnknownOptionReported(argv[j]))

(* C6 as amended: -b-<digits> is never an unknown-option failure; it is    *)
(* the fused short form with the value text -<digits>.  A non-zero number  *)
(* within int range is rejected as a negative-value failure, a number      *)
(* beyond int range as an out-of-range failure, both with a non-zero       *)
(* status and without invoking rss_factory; -b-0 is accepted with          *)
(* previous = 0.                                                           *)
C6_FusedNegativeValue ==
  \A j \in 1..Len(argv) :
    (/\ IsFusedNegative(argv[j])
     /\ OnlyFlagsBeside(argv, {j}))
    => LET digits == substr_from(argv[j], 3)
       IN  /\ \A n \in 1..Len(err) : err[n].kind # "unknown_option"
           /\ pc # "parse_options" =>
                /\ parse_ok
                /\ opt_map["back"] = <<substr_from(argv[j], 2)>>
           /\ (Done /\ InIntRange(digits) /\ DecimalValue(digits) # 0) =>
                /\ exit_code = EXIT_FAILURE
                /\ err = <<Line("negative", "", -DecimalValue(digits))>>
                /\ out = <<>>
                /\ rss_calls = 0
           /\ (Done /\ ~InIntRange(digits) /\ Len(digits) = 10) =>
                /\ exit_code = EXIT_FAILURE
                /\ err = <<Line("out_of_range", substr_from(argv[j], 2), 0)>>
                /\ out = <<>>
                /\ rss_calls = 0
           /\ (Done /\ InIntRange(digits) /\ DecimalValue(digits) = 0) =>
                /\ rss_calls = 1
                /\ opts.previous = 0

C6_Witness ==
  /\ Done
  /\ argv = <<"-o", "-b-9888">>
  /\ err = <<Line("negative", "", -9888)>>
  /\ exit_code = EXIT_FAILURE

(* C7: every token that matches none of the supported option forms is a    *)
(* hard failure: in a list without help or version tokens that holds a     *)
(* hyphen-led token of no supported form, the run reports one unknown      *)
(* option and exits non-zero without invoking rss_factory.                 *)
C7_UnknownTokenFails ==
  (/\ Done
   /\ \A n \in 1..Len(argv) : argv[n] \notin HelpTokens \cup VersionTokens
   /\ \E j \in 1..Len(argv) :
        LooksLikeOption(argv[j]) /\ Branch(argv[j]) = "unknown")
  => (/\ exit_code # EXIT_SUCCESS
      /\ rss_calls = 0
      /\ Len(err) = 1
      /\ err[1].kind = "unknown_option")

\* a help or version token was matched by parse_options
HelpOrVersionMatched == Has(opt_map, "help") \/ Has(opt_map, "version")

(* C8: once -h, --help, -V or --version has been matched no further token  *)
(* is scanned, so whatever follows the outcome is the help (version)       *)
(* terminal outcome and never a failure.                                   *)
C8_HelpStopsScan ==
  (Done /\ HelpOrVersionMatched)
  => (/\ exit_code = EXIT_SUCCESS
      /\ out \in {<<UsageLine>>, <<VersionLine>>}
      /\ err = <<>>)

(* C8 as amended: matching -h, --help, -V or --version does not end the    *)
(* scan; parse_options goes on through the remaining tokens.  If it meets  *)
(* an unknown token the outcome is the unknown-option failure naming that  *)
(* token, with the failure status and nothing on standard output.          *)
(* Otherwise every token was passed and the outcome is the help (version)  *)
(* terminal outcome with status 0, help taking precedence over version.    *)
C8_HelpKeepsScanning ==
  (pc # "parse_options" /\ HelpOrVersionMatched)
  => /\ parse_ok =>
          /\ i >= argc
          /\ \A n \in 1..Len(argv) :
               Branch(argv[n]) = "unknown" =>
                 (n > 1 /\ argv[n - 1] \in BareBack)
          /\ Done =>
               /\ exit_code = EXIT_SUCCESS
               /\ out = IF Has(opt_map, "help") THEN <<UsageLine>>
                                                ELSE <<VersionLine>>
               /\ err = <<>>
     /\ ~parse_ok =>
          /\ i < argc
          /\ \E n \in 1..(i - 1) : argv[n] \in HelpTokens \cup VersionTokens
          /\ UnknownOptionReported(argv[i])
          /\ out = <<>>
          /\ Done => exit_code = EXIT_FAILURE

C8_Witness ==
  /\ Done
  /\ Has(opt_map, "help")
  /\ ~parse_ok
  /\ argv[1] \in HelpTokens
  /\ i = 2
  /\ exit_code = EXIT_FAILURE

\* the class of the failure a run ended with, read off its diagnostic
FailureClass ==
  IF err = <<>> THEN "none"
  ELSE IF err[1].kind \in {"unknown_option", "invalid_argument",
                           "out_of_range", "negative"} THEN "argument"
  ELSE IF err[1].kind = "curl_error" THEN "transport"
  ELSE IF err[1].kind = "exception" THEN "parse"
  ELSE "bounds"

(* C9: the exit status identifies the failure class: 0 only on success or  *)
(* help/version, and argument, transport and parse/bounds failures return  *)
(* pairwise different non-zero codes; so the status EXIT_FAILURE of the    *)
(* argument failures is returned by no transport, parse or bounds failure, *)
(* and parse and bounds failures, one class, return one status.            *)
C9_StatusIdentifiesClass ==
  Done =>
    /\ exit_code = EXIT_SUCCESS <=> FailureClass = "none"
    /\ FailureClass = "argument" => exit_code = EXIT_FAILURE
    /\ FailureClass \in {"transport", "parse", "bounds"} =>
         exit_code # EXIT_FAILURE
    /\ FailureClass \in {"parse", "bounds"} => exit_code = EXIT_FAILURE + 1

(* C9 as amended: status 0 is returned only on success or help/version and *)
(* every failure returns a non-zero status; only the extraction (parse)    *)
(* failure has a status of its own, EXIT_FAILURE + 1, while argument,      *)
(* transport, empty-feed and bounds failures all return EXIT_FAILURE.      *)
C9_ParseStatusDistinct ==
  Done =>
    /\ exit_code = EXIT_SUCCESS <=> FailureClass = "none"
    /\ FailureClass = "none" => out # <<>>
    /\ FailureClass # "none" => out = <<>>
    /\ FailureClass = "parse" <=> exit_code = EXIT_FAILURE + 1
    /\ FailureClass \in {"argument", "transport", "bounds"} <=>
         exit_code = EXIT_FAILURE

C9_Witness ==
  /\ Done
  /\ FailureClass = "parse"
  /\ exit_code = EXIT_FAILURE + 1
  /\ res.payload.xml
  /\ res.payload.channel

(* C10: for a feed of k >= 1 items and an offset p, p <= k - 1 makes the   *)
(* run succeed and print the item at position p in document order (the     *)
(* last item for p = k - 1); p >= k makes it fail with a diagnostic naming *)
(* k - 1 and a non-zero status; the items are never read outside 0..k-1.   *)
C10_BoundsCheck ==
  (Done /\ Len(rss_items) >= 1)
  => LET k == Len(rss_items)
         p == opts.previous
         children == res.payload.children
     IN  /\ k = Cardinality(ItemPositions(children))
         /\ p <= k - 1 =>
              /\ exit_code = EXIT_SUCCESS
              /\ Len(out) = 1
              /\ out[1] \in ItemLines(PositionAtOffset(children, p))
              /\ err = <<>>
         /\ p >= k =>
              /\ exit_code # EXIT_SUCCESS
              /\ err = <<Line("too_far_back", "", k - 1)>>
              /\ out = <<>>
         /\ ItemPrinted => p \in 0..(k - 1)

C10_Witness ==
  /\ Done
  /\ Len(res.payload.children) = 3
  /\ res.payload.children[2].name = "other"
  /\ Len(rss_items) = 2
  /\ opts.previous = 1
  /\ out = <<Line("item_wrapped", "", 3)>>
  /\ exit_code = EXIT_SUCCESS

-----------------------------------------------------------------------------
\* the feed was retrieved and its payload is a document with a channel
FeedParsed ==
  /\ rss_calls > 0
  /\ res.status = CURLE_OK
  /\ res.payload.xml
  /\ res.payload.channel

\* every item child of the channel can be read as an item
ItemsReadable(children) ==
  \A j \in ItemPositions(children) : children[j].complete

\* a line of kind "item_one_line" or "item_wrapped": text followed by the
\* attribution "-- <guid>"
IsItemLine(line) == line.kind \in {"item_one_line", "item_wrapped"}

(* C11: when the payload parses to a feed with zero item children, the     *)
(* extraction yields an empty sequence and the run reports that no entry   *)
(* was found and ends with a non-zero status whatever previous is, and no  *)
(* item is selected or printed.                                            *)
C11_EmptyFeed ==
  (FeedParsed /\ ItemPositions(res.payload.children) = {}
     /\ pc \in {"select", "done"})
  => /\ rss_items = <<>>
     /\ ~ItemPrinted
     /\ Done =>
          /\ err = <<Line("no_items", "", 0)>>
          /\ out = <<>>
          /\ exit_code # EXIT_SUCCESS

C11_Witness ==
  /\ Done
  /\ FeedParsed
  /\ Len(res.payload.children) = 2
  /\ ItemPositions(res.payload.children) = {}
  /\ opts.previous = 3
  /\ err = <<Line("no_items", "", 0)>>
  /\ exit_code = EXIT_FAILURE

(* C12: a run that ends with a non-zero status (offset too large, negative *)
(* or invalid -b value, transport or parse failure) has written no item    *)
(* line, the text carrying the attribution "-- <guid>", to standard output *)
(* or to standard error, whatever the feed holds.                          *)
C12_NoItemOnFailure ==
  (Done /\ exit_code # EXIT_SUCCESS)
  => /\ \A n \in 1..Len(out) : ~IsItemLine(out[n])
     /\ \A n \in 1..Len(err) : ~IsItemLine(err[n])

C12_Witness ==
  /\ Done
  /\ exit_code # EXIT_SUCCESS
  /\ "-b1000" \in {argv[n] : n \in 1..Len(argv)}
  /\ FeedParsed
  /\ Len(rss_items) = 3
  /\ out = <<>>

\* the kinds of the diagnostics of the program
DiagnosticKinds ==
  {"unknown_option", "invalid_argument", "out_of_range", "negative",
   "curl_error", "exception", "no_items", "too_far_back"}

(* C13: on every failure path (argument, transport, parse, empty-feed and  *)
(* bounds failures) exactly one diagnostic line is written, it is written  *)
(* to standard error, and standard output receives nothing.                *)
C13_OneDiagnosticLine ==
  (Done /\ exit_code # EXIT_SUCCESS)
  => /\ Len(err) = 1
     /\ err[1].kind \in DiagnosticKinds
     /\ out = <<>>

(* C13 as amended: on every failure path exactly one diagnostic is         *)
(* written, by one output statement, to standard error, and standard       *)
(* output receives nothing; the diagnostic is one line for the argument,   *)
(* transport, empty-feed and bounds failures, and for a parse failure it   *)
(* is the diagnostic information of the exception, which is several lines. *)
C13_OneDiagnostic ==
  (Done /\ exit_code # EXIT_SUCCESS)
  => /\ out = <<>>
     /\ Len(err) >= 1
     /\ err[1].kind \in DiagnosticKinds
     /\ IF err[1].kind = "exception"
          THEN err = ExceptionDiagnostic
          ELSE Len(err) = 1

C13_Witness ==
  /\ Done
  /\ exit_code = EXIT_FAILURE + 1
  /\ FeedParsed
  /\ ~ItemsReadable(res.payload.children)
  /\ err = ExceptionDiagnostic
  /\ Len(err) = 2
  /\ out = <<>>

\* the threads whose constructor is past init_curl
PastInitCurl ==
  {t \in Threads : tpc[t] \in {"easy_init", "constructed", "thrown_easy_init"}}

\* the threads that are executing curl_global_init
InGlobalInit == {t \in Threads : tpc[t] = "global_init"}

\* the threads whose constructor threw
Thrown == {t \in Threads : tpc[t] \in {"thrown_init", "thrown_easy_init"}}

\* the threads that are still inside the constructor
InCtor == {t \in Threads : tpc[t] \in {"init_curl", "global_init", "easy_init"}}

\* the live objects that hold the session handle h
Holders(h) == {o \in Objs : life[o] = "alive" /\ handle_[o] = h}

C15_ExclusiveOwnership ==
  /\ \A h \in 1..acquired :
       released[h] = 0 => Cardinality(Holders(h)) <= 1
  /\ (last_op.op \in {"move_ctor", "move_asgn"} /\ last_op.to # last_op.from)
     => /\ handle_[last_op.from] = NULL
        /\ handle_[last_op.to] = last_op.raw
        /\ life[last_op.to] = "alive"

C15_Witness ==
  /\ last_op = Op("move_asgn", 2, 1, 1)
  /\ handle_[1] = NULL
  /\ handle_[2] = 1
  /\ life[1] = "alive"
  /\ life[2] = "alive"
  /\ released[2] = 1

(* C16: every session handle a curl_handle acquired is released exactly    *)
(* once, never leaked and never released twice, on every path: it is       *)
(* unreleased exactly while one live object holds it, whether the object   *)
(* was moved from or to, move-assigned onto while owning a handle (also    *)
(* from itself), or destroyed at scope exit or while an exception of       *)
(* option setting or of execute unwinds the stack.                         *)
C16_ReleasedOnce ==
  /\ \A h \in RawHandles : released[h] <= 1
  /\ \A h \in RawHandles : h > acquired => released[h] = 0
  /\ \A h \in 1..acquired : released[h] = 0 <=> Holders(h) # {}
  /\ (last_op.op \in DtorReasons /\ last_op.raw # NULL) =>
       released[last_op.raw] = 1
  /\ (\A o \in Objs : life[o] # "alive") =>
       \A h \in 1..acquired : released[h] = 1

C16_Witness ==
  /\ last_op = Op("move_asgn", 1, 1, 1)
  /\ life[1] = "alive"
  /\ handle_[1] = NULL
  /\ released[1] = 1

(* C17: curl_get is an exception boundary: no exception leaves it, and a   *)
(* failure while acquiring the session handle, setting an option or        *)
(* executing the request is returned as a result whose status is not       *)
(* success.                                                                *)
C17_ExceptionBoundary ==
  gfn = "curl_get" =>
    /\ gescaped = NoException
    /\ gpc # "escaped"
    /\ (gpc = "returned" /\ gret.status = CURLE_OK) =>
         \A O \in OptionNames : gset[O] # Unset

(* C18: in every result returned by the feed retrieval the payload is      *)
(* empty unless the status is success, also when the transfer failed after *)
(* some bytes were received, and the diagnostic is empty when the status   *)
(* is success.                                                             *)
C18_PayloadOnlyOnSuccess ==
  gpc = "returned" =>
    /\ gret.status # CURLE_OK => gret.payload = 0
    /\ gret.status = CURLE_OK => gret.reason = ""

(* C19: certificate verification is disabled for the request if and only   *)
(* if the insecure flag of the Options Record is set; without the flag the *)
(* transport is asked to verify the peer certificate.                      *)
C19_VerifyUnlessInsecure ==
  gpc \in {"perform", "rss_perform"} =>
    /\ gset["SSL_VERIFYPEER"] = 0 <=> opts.insecure
    /\ ~opts.insecure => gset["SSL_VERIFYPEER"] = 1

(* C20: to_item_vector returns exactly one item per child of the channel   *)
(* named item, in document order; a child of another name is skipped       *)
(* without error and contributes nothing, so the length of the result is   *)
(* the number of item children.                                            *)
C20_ItemsInDocumentOrder ==
  (FeedParsed /\ ItemsReadable(res.payload.children)
     /\ pc \in {"select", "done"})
  => LET children == res.payload.children
     IN  /\ Len(rss_items) = Cardinality(ItemPositions(children))
         /\ \A p \in 0..(Len(rss_items) - 1) :
              rss_items[p + 1] =
                from_tree(children[PositionAtOffset(children, p)])
         /\ Done => FailureClass # "parse"

C20_Witness ==
  /\ pc = "select"
  /\ FeedParsed
  /\ Len(res.payload.children) = 3
  /\ res.payload.children[1].name = "other"
  /\ res.payload.children[2].name = "item"
  /\ res.payload.children[3].name = "item"
  /\ rss_items = <<from_tree(res.payload.children[2]),
                   from_tree(res.payload.children[3])>>

(* C21: if any item child lacks one of the seven required fields, the      *)
(* extraction fails for the whole call: no item sequence is returned, not  *)
(* even the well-formed items before the bad one, and program_main ends    *)
(* with the parse-failure status and has printed no item.                  *)
C21_NoPartialItems ==
  (FeedParsed /\ ~ItemsReadable(res.payload.children))
  => /\ pc \in {"check_status", "done"}
     /\ rss_items = <<>>
     /\ ~ItemPrinted
     /\ Done =>
          /\ exit_code = EXIT_FAILURE + 1
          /\ out = <<>>
          /\ err = ExceptionDiagnostic

C21_Witness ==
  /\ Done
  /\ FeedParsed
  /\ Len(res.payload.children) = 3
  /\ res.payload.children[1].name = "item"
  /\ res.payload.children[1].complete
  /\ ~res.payload.children[2].complete
  /\ rss_items = <<>>
  /\ exit_code = EXIT_FAILURE + 1

\* the positions of the occurrences of -b, --back in any form
BackPositions(args) ==
  {j \in 1..Len(args) : Branch(args[j]) \in {"back", "back_short", "back_long"}}

\* the greatest element of a non-empty set of numbers
Max(S) == CHOOSE n \in S : \A m \in S : m <= n

\* the value text of the occurrence of -b, --back at position j: the text
\* fused to it, the following token when that is a value, and else the
\* implicit 1
OccurrenceText(args, j) ==
  IF args[j] \in BareBack
    THEN (IF j + 1 <= Len(args) /\ ~LooksLikeOption(args[j + 1])
            THEN args[j + 1] ELSE "1")
    ELSE FusedValue(args[j])

\* some token of args is one of toks
Occurs(args, toks) == \E n \in 1..Len(args) : args[n] \in toks

(* C22: for every accepted argument list the Options Record is the         *)
(* defaults overridden by the matched options: each boolean flag is true   *)
(* iff its token occurred at least once, and previous is the value of the  *)
(* last occurrence of -b, --back in the list, 0 if there is none.          *)
C22_LastWins ==
  HasOptions =>
    /\ opts.one_line <=> Occurs(argv, {"-o", "--one-line"})
    /\ opts.verbose <=> Occurs(argv, {"-v", "--verbose"})
    /\ opts.insecure <=> Occurs(argv, {"-k", "--insecure"})
    /\ opts.previous =
         IF BackPositions(argv) = {} THEN 0
         ELSE stoi(OccurrenceText(argv, Max(BackPositions(argv)))).value

\* the occurrence of -b, --back at position j consumes a value text: it is
\* fused to the option or it is the following token
ConsumesValueAt(args, j) ==
  \/ Branch(args[j]) \in {"back_short", "back_long"}
  \/ /\ args[j] \in BareBack
     /\ j + 1 <= Len(args)
     /\ ~LooksLikeOption(args[j + 1])

\* s is a hyphen followed by zeros only: the integer 0 written with a sign
IsMinusZero(s) ==
  /\ Len(s) >= 2
  /\ CharAt(s, 0) = "-"
  /\ \A n \in 1..(Len(s) - 1) : CharAt(s, n) = "0"

\* the whole of s is the text of a non-negative integer within int range
IsNonNegativeIntText(s) == IsIntText(s) \/ IsMinusZero(s)

(* C23: a value text of -b, --back is accepted if and only if the whole    *)
(* text is a non-negative integer within int range; every other value text *)
(* produces exactly one of three distinct failures (not an integer, out of *)
(* range, negative), reported with the offending text or the number it     *)
(* denotes, and the run exits non-zero before rss_factory is invoked.      *)
C23_WholeTextIsInteger ==
  \A j \in 1..Len(argv) :
    (Done /\ ConsumesValueAt(argv, j) /\ OnlyFlagsBeside(argv, BackSpan(argv, j)))
    => LET text == GivenBackText(argv, j)
       IN  /\ IsNonNegativeIntText(text) <=> rss_calls = 1
           /\ ~IsNonNegativeIntText(text) =>
                /\ rss_calls = 0
                /\ exit_code # EXIT_SUCCESS
                /\ Len(err) = 1
                /\ err[1].kind \in {"invalid_argument", "out_of_range",
                                    "negative"}
                /\ err[1].kind # "negative" => err[1].text = text

\* the stages of program_main in their order: argument interpretation
\* (parse_options, then extract_args), feed retrieval, item extraction,
\* empty and bounds check with the output, and the end of the run
StageRank(p) ==
  CASE p = "parse_options" -> 0
    [] p = "extract_args" -> 1
    [] p = "rss_factory" -> 2
    [] p = "check_status" -> 3
    [] p = "select" -> 4
    [] p = "done" -> 5

\* what holds of a run at each of its stages
StageInvariant ==
  /\ rss_calls <= 1
  /\ rss_calls = 1 => (parse_ok /\ StageRank(pc) >= 3)
  /\ pc = "rss_factory" => (parse_ok /\ rss_calls = 0)
  /\ pc \in {"rss_factory", "check_status", "select"} =>
       (err = <<>> /\ out = <<>>)
  /\ pc \in {"check_status", "select"} => rss_calls = 1
  /\ pc = "select" => res.status = CURLE_OK
  /\ res.status # CURLE_OK => rss_items = <<>>
  /\ (err # <<>> /\ ~Done) => (pc = "extract_args" /\ ~parse_ok)
  /\ out # <<>> => Done

\* what holds of each step of a run
StageStep ==
  /\ StageRank(pc') >= StageRank(pc)
  /\ StageRank(pc') = StageRank(pc) => pc = "parse_options"
  /\ pc' # "done" => StageRank(pc') <= StageRank(pc) + 1
  /\ err # <<>> => (pc' = "done" /\ err' = err /\ out' = out
                    /\ rss_calls' = rss_calls /\ rss_items' = rss_items)
  /\ rss_calls' # rss_calls => (pc = "rss_factory" /\ pc' = "check_status")
  /\ rss_items' # rss_items => (pc = "check_status" /\ res.status = CURLE_OK)
  /\ out' # out => pc' = "done"

(* C24: in every run of program_main the stages execute in the fixed order *)
(* argument interpretation, feed retrieval, item extraction, empty check,  *)
(* bounds check, output; rss_factory is invoked at most once, and a        *)
(* failure at any stage ends the run at once without any later stage; a    *)
(* result whose status is not success is never parsed.                     *)
C24_StagesInOrder == []StageInvariant /\ [][StageStep]_vars

C24_Witness ==
  /\ Done
  /\ rss_calls = 1
  /\ res.status # CURLE_OK
  /\ rss_items = <<>>
  /\ err = <<Line("curl_error", res.reason, res.status)>>
  /\ out = <<>>
  /\ exit_code = EXIT_FAILURE

\* set was called on the handle
SetCalled == scall # NoCall

(* C25: setting an option whose binding is always ok (error buffer, write   *)
(* callback, write data) never raises, whatever curl_easy_setopt returns;   *)
(* setting any other option (URL, verbose, certificate verification)        *)
(* raises curl_error exactly when curl_easy_setopt returns a status other   *)
(* than CURLE_OK, and the error carries that status and the text            *)
(* curl_easy_strerror has for it.                                           *)
C25_SetRaisesOnFailure ==
  SetCalled =>
    /\ scall.option \in {"ERRORBUFFER", "WRITEFUNCTION", "WRITEDATA"} =>
         thrown = NoError
    /\ scall.option \in {"URL", "VERBOSE", "SSL_VERIFYPEER"} =>
         /\ (thrown # NoError) <=> (scall.code # CURLE_OK)
         /\ thrown # NoError =>
              /\ thrown.status = scall.code
              /\ thrown.error_text = curl_easy_strerror(scall.code)

C25_Witness ==
  /\ scall = [option |-> "WRITEDATA", value |-> 1,
              code |-> CURLE_BAD_FUNCTION_ARGUMENT]
  /\ thrown = NoError
  /\ gset["URL"] = 1
  /\ gset["WRITEDATA"] = Unset

\* a second state of the case: an option that can fail did fail
C25_WitnessRaised ==
  /\ scall = [option |-> "SSL_VERIFYPEER", value |-> 0,
              code |-> CURLE_OUT_OF_MEMORY]
  /\ thrown = [status |-> CURLE_OUT_OF_MEMORY, error_text |-> "Out of memory"]

(* C26: the write callback returns n_items only if all n_items bytes of the *)
(* chunk were appended to the stream: every chunk it acknowledged in full   *)
(* is in the stream.                                                        *)
C26_AckedOnlyIfAppended == gacked = gstream

\* the part that holds: a chunk is appended only by a call that
\* acknowledges it, and nothing is appended once the stream is bad
C26_AppendedAreAcked ==
  /\ gstream <= gacked
  /\ gbad <=> gstream < gacked

\* curl_global_init calls made by the static curl_loader, before the call
LoaderInits == IF loader = "done" THEN 1 ELSE 0

(* C28: get_rss returns a success status only if the transfer was performed *)
(* and succeeded: a session handle was acquired, the URL and every caller   *)
(* option were set, and curl_easy_perform was called.                       *)
C28_SuccessOnlyIfPerformed ==
  (gfn = "get_rss" /\ gpc = "returned" /\ gret.status = CURLE_OK) =>
    /\ ghandle # NULL
    /\ gset["URL"] = 1
    /\ gk > Len(goptions)

\* the threads inside std::strerror
InStrerror == {t \in Threads : spc[t] \in {"strerror", "in_strerror"}}

(* C29: pdxka::strerror is safe under concurrent use: calls into            *)
(* std::strerror never overlap, every thread that copied the returned text  *)
(* has the complete message of the error code it passed, and threads that   *)
(* passed the same code have identical strings.                             *)
C29_CompleteMessages ==
  /\ Cardinality(InStrerror) <= 1
  /\ \A t \in Threads : spc[t] = "copied" => scopy[t] = Message(scode[t])
  /\ \A t, u \in Threads :
       (spc[t] = "copied" /\ spc[u] = "copied" /\ scode[t] = scode[u]) =>
         scopy[t] = scopy[u]

\* the part that holds: the mutex serialises the calls of std::strerror
C29_CallsNeverOverlap ==
  /\ Cardinality(InStrerror) <= 1
  /\ \A t \in Threads : t \in InStrerror <=> mut = t

(* C30: cleanup in get_rss is balanced on every exit path: at the return,   *)
(* curl_easy_cleanup was called once for each session handle curl_easy_init *)
(* returned, and curl_global_cleanup once for each curl_global_init of the  *)
(* call that succeeded and never for one that failed.                       *)
C30_BalancedCleanup ==
  (gfn = "get_rss" /\ gpc = "returned") =>
    /\ \A h \in RawHandles : released[h] = IF h <= acquired THEN 1 ELSE 0
    /\ global_cleanups = global_ok - LoaderInits

\* the part that holds: the session handles are released once each
C30_HandlesReleasedOnce ==
  (gfn = "get_rss" /\ gpc = "returned") =>
    \A h \in RawHandles : released[h] = IF h <= acquired THEN 1 ELSE 0

\* the argument list ends with tok and has only the flags -k, -v, -o before
EndsWith(tok) ==
  /\ Len(argv) >= 1
  /\ argv[Len(argv)] = tok
  /\ \A j \in 1..(Len(argv) - 1) :
       Branch(argv[j]) \in {"insecure", "verbose", "one_line"}

\* the run took n as the value of previous and went on to the retrieval
ParsedAs(n) ==
  /\ opts.previous = n
  /\ rss_calls = 1

(* C27: for every non-negative integer n, the token -b=N (short option      *)
(* joined to its value with =) parses to previous = n, the same result as   *)
(* --back=N.                                                                *)
C27_ShortEqualsParses ==
  Done =>
    /\ EndsWith("-b=2") => ParsedAs(2)
    /\ EndsWith("--back=2") => ParsedAs(2)
    /\ EndsWith("--back=0") => ParsedAs(0)

(* C27 as amended: --back=N parses to previous = n; the token -b=N is the   *)
(* short option with the fused value text =N, which is not an integer: the  *)
(* run writes the invalid-argument diagnostic for =N and ends with a        *)
(* failure status without a retrieval.                                      *)
C27_ShortEqualsRejected ==
  Done =>
    /\ EndsWith("-b=2") =>
         /\ err = <<Line("invalid_argument", "=2", 0)>>
         /\ out = <<>>
         /\ rss_calls = 0
         /\ exit_code = EXIT_FAILURE
    /\ EndsWith("--back=2") => ParsedAs(2)
    /\ EndsWith("--back=0") => ParsedAs(0)

C27_Witness ==
  /\ Done
  /\ argv = <<"-k", "-b=2">>
  /\ err = <<Line("invalid_argument", "=2", 0)>>
  /\ rss_calls = 0

====
